---- MODULE Spec2Model ----
(***************************************************************************)
(* BIMAGE to PNG converter (src/bimage.py): the BC1/DXT1 and BC3/DXT5      *)
(* block decoders, the image assembler loops, the PNG writer and           *)
(* convert_bimage, as a state machine.  Byte strings are sequences of      *)
(* naturals below 256; Python's 0-based positions are kept and turned into *)
(* TLA+'s 1-based ones only inside At, Slice and SetSlice.                 *)
(***************************************************************************)
EXTENDS Integers, Sequences, FiniteSets, TLC

VARIABLES
    file,        \* the bytes of the input file convert_bimage opens
    pc,          \* position in convert_bimage / the decoder it called
    width,       \* header field read at 0x0E
    height,      \* header field read at 0x12
    fmt,         \* header field read at 0x23
    image_data,  \* the payload read from 0x48 to the end of the file
    decoder,     \* which decompress_* function convert_bimage invoked
    pixels,      \* the decoder's bytearray (None before it is allocated)
    by,          \* outer loop variable of the decoder
    bx,          \* inner loop variable of the decoder
    c0,          \* packed endpoint 0 of the block decoded last
    c1,          \* packed endpoint 1 of the block decoded last
    colors,      \* the palette of the block decoded last
    alphas,      \* the alpha ramp of the block decoded last (BC3)
    indices,     \* the bytes of the colour index field of the block decoded last
    visited,     \* the blocks the loops reached, in order
    writes,      \* the pixel writes performed, in order
    rgba,        \* convert_bimage's rgba (None before a decoder returned)
    outfile,     \* the bytes written to the .png file (None: no file)
    result,      \* convert_bimage's return value (None while running)
    files,       \* main's files: one entry per command-line argument
    file_idx,    \* how many entries of files the for loop of main has taken
    success_count, \* main's success_count
    saved,       \* per argument, the .png file its conversion left (None: none)
    calls,       \* the arguments convert_bimage was called on, in call order
    tool,        \* which model converter runs: "bmodel", "bmd6model" or "none"
    file_data,   \* main's file_data, extract_model's data: the model file
    search_offset,   \* main's search_offset
    part_number,     \* main's part_number
    total_extracted, \* main's total_extracted
    marker_offset,   \* extract_model's marker_offset
    offset,          \* extract_model's / extract_triangle_strip_faces' offset
    vertex_count,    \* extract_model's vertex_count
    face_count,      \* extract_model's / the strip reader's face_count
    vertices,        \* how many vertices extract_model has read
    bytes_read,      \* the strip reader's bytes_read
    strip_indices,   \* the strip reader's strip_indices, each with its offset
    faces,           \* the triangles extracted so far
    objs,            \* the OBJ files written: part number and marker offset
    nfiles,          \* extract_resources' files: the count the index declares
    entries,         \* the entries the index file holds
    entry_i,         \* extract_resources' loop variable i
    uncompressed_count, \* extract_resources' uncompressed_count
    compressed_count,   \* extract_resources' compressed_count
    failed_count,       \* extract_resources' failed_count
    counted          \* the inner try's history: entry and event, in order

vars == <<file, pc, width, height, fmt, image_data, decoder, pixels, by, bx,
          c0, c1, colors, alphas, indices, visited, writes, rgba, outfile,
          result, files, file_idx, success_count, saved, calls,
          tool, file_data, search_offset, part_number, total_extracted,
          marker_offset, offset, vertex_count, face_count, vertices,
          bytes_read, strip_indices, faces, objs,
          nfiles, entries, entry_i, uncompressed_count, compressed_count,
          failed_count, counted>>

\* the variables of the model converters (bmodel.py, bmd6model.py)
modelVars == << tool, file_data, search_offset, part_number, total_extracted,
                marker_offset, offset, vertex_count, face_count, vertices,
                bytes_read, strip_indices, faces, objs >>

\* the variables of extract_resources (wolfesntein_resources.py)
resVars == << nfiles, entries, entry_i, uncompressed_count, compressed_count,
              failed_count, counted >>

\* the variables of the programs other than bimage.py
toolVars == << modelVars, resVars >>

\* the variables of main
mainVars == << files, file_idx, success_count, saved, calls >>

\* Python's None, for a variable holding a string, an integer, bytes, a list
None == "None"

NoInt == 0 - 1

NoBytes == << 0 - 1 >>

NoList == << >>

\* an argument for which os.path.isfile is false
NotAFile == << 0 - 2 >>

\* a file that open(input_path, 'rb') cannot open
Unreadable == << 0 - 3 >>

(***************************************************************************)
(* Bounds of the inputs.                                                   *)
(***************************************************************************)
MaxDim == 5      \* width and height range over 0..MaxDim
MaxExtra == 2    \* payload bytes beyond the last grid block
MaxFiles == 3    \* command-line arguments of one run of main
MaxWords == 6    \* 16-bit words of face data given to the strip reader
MaxParts == 2    \* model parts laid out in one model file
MaxEntries == 2  \* entries held by one index file
NumSeeds == 2    \* number of different payload contents

(***************************************************************************)
(* Program constants.                                                      *)
(***************************************************************************)
STRIP_END == 65535     \* 0xFFFF, the strip terminator

FMT_BC3 == 11         \* 0x0B
FMT_BC1 == 10         \* 0x0A
OFF_WIDTH == 14       \* 0x0E
OFF_HEIGHT == 18      \* 0x12
OFF_FORMAT == 35      \* 0x23
OFF_DATA == 72        \* 0x48
BC1_STRIDE == 8
BC3_STRIDE == 16

(***************************************************************************)
(* Python sequence primitives.                                             *)
(***************************************************************************)
Min(a, b) == IF a < b THEN a ELSE b

Max(a, b) == IF a > b THEN a ELSE b

\* s[i] for 0 <= i < len(s)
At(s, i) == s[i + 1]

\* s[lo:hi] for 0 <= lo, 0 <= hi: both ends are clipped to len(s)
Slice(s, lo, hi) == SubSeq(s, Min(lo, Len(s)) + 1, Min(hi, Len(s)))

\* s[lo:hi] = vals on a bytearray: the clipped slice is replaced by vals,
\* whatever the length of vals
SetSlice(s, lo, hi, vals) ==
    LET l == Min(lo, Len(s))
        h == Max(l, Min(hi, Len(s)))
    IN SubSeq(s, 1, l) \o vals \o SubSeq(s, h + 1, Len(s))

\* bytearray(n)
Zeros(n) == [i \in 1..n |-> 0]

\* 2^n
RECURSIVE Pow2(_)
Pow2(n) == IF n = 0 THEN 1 ELSE 2 * Pow2(n - 1)

\* struct.unpack('<H', b)[0]; the caller checks Len(b) = 2
UnpackLE16(b) == b[1] + 256 * b[2]

\* struct.unpack('>H', b)[0]; the caller checks Len(b) = 2
UnpackBE16(b) == 256 * b[1] + b[2]

\* the field read from the byte that holds its first bit alone
BitsAt_ByteAligned(b, off, n) == (At(b, off \div 8) \div Pow2(off % 8)) % Pow2(n)

\* (v >> off) & (2^n - 1) for the little-endian integer v whose bytes are b
\* (struct.unpack('<I', b) and '<Q'): the field is read bit by bit, so that
\* a 32- or 64-bit v never has to be formed
RECURSIVE BitsAt(_, _, _)
BitsAt(b, off, n) ==
    IF n = 0 THEN 0
    ELSE LET p == off + n - 1
             bit == IF p \div 8 < Len(b)
                    THEN (At(b, p \div 8) \div Pow2(p % 8)) % 2
                    ELSE 0
         IN bit * Pow2(n - 1) + BitsAt(b, off, n - 1)

(***************************************************************************)
(* Colour endpoints and palettes.                                          *)
(***************************************************************************)
\* bit replication in place of the scaled division: (v << 3) | (v >> 2)
Expand5_Replicate(v) == v * 8 + v \div 4

\* a 5-bit channel scaled to 8 bits: v * 255 // 31
Expand5(v) == (v * 255) \div 31

\* bit replication of the 6-bit channel: (v << 2) | (v >> 4)
Expand6_Replicate(v) == v * 4 + v \div 16

\* the 6-bit channel scaled to 8 bits: v * 255 // 63
Expand6(v) == (v * 255) \div 63

\* the (r, g, b) of a packed 5-6-5 endpoint
Rgb565(c) == << Expand5((c \div 2048) % 32),
                Expand6((c \div 32) % 64),
                Expand5(c % 32) >>

\* rounding to nearest in place of truncating
Interp3_Rounded(a, b) == (2 * a + b + 1) \div 3

\* (2 * a + b) // 3
Interp3(a, b) == (2 * a + b) \div 3

\* (a + b) // 2
Avg2(a, b) == (a + b) \div 2

\* c0 >= c1 in place of c0 > c1
FourColour_OrEqual(e0, e1) == e0 >= e1

\* the branch test of the BC1 palette, on the packed endpoints
FourColour(e0, e1) == e0 > e1

\* colors of decompress_dxt1: four (r, g, b, a) tuples
Bc1Colors(e0, e1) ==
    LET p == Rgb565(e0) \o <<255>>
        q == Rgb565(e1) \o <<255>>
    IN IF FourColour(e0, e1)
       THEN << p, q,
               << Interp3(p[1], q[1]), Interp3(p[2], q[2]), Interp3(p[3], q[3]), 255 >>,
               << Interp3(q[1], p[1]), Interp3(q[2], p[2]), Interp3(q[3], p[3]), 255 >> >>
       ELSE << p, q,
               << Avg2(p[1], q[1]), Avg2(p[2], q[2]), Avg2(p[3], q[3]), 255 >>,
               << 0, 0, 0, 0 >> >>

\* the colours of decompress_dxt1 without their alpha: the palette a BC3
\* decoder would build if it chose its mode by the endpoint order
Bc3Colors_Ordered(e0, e1) ==
    [k \in 1..4 |-> SubSeq(Bc1Colors(e0, e1)[k], 1, 3)]

\* colors of decompress_dxt5: four (r, g, b) tuples, always interpolated
Bc3Colors(e0, e1) ==
    LET p == Rgb565(e0)
        q == Rgb565(e1)
    IN << p, q,
          << Interp3(p[1], q[1]), Interp3(p[2], q[2]), Interp3(p[3], q[3]) >>,
          << Interp3(q[1], p[1]), Interp3(q[2], p[2]), Interp3(q[3], p[3]) >> >>

\* the a0 > a1 ramp rounded to nearest
RECURSIVE Ramp7_Rounded(_, _, _)
Ramp7_Rounded(a0, a1, i) ==
    IF i >= 7 THEN << >>
    ELSE << ((7 - i) * a0 + i * a1 + 3) \div 7 >> \o Ramp7_Rounded(a0, a1, i + 1)

\* the a0 > a1 ramp with the two weights exchanged
RECURSIVE Ramp7_Swapped(_, _, _)
Ramp7_Swapped(a0, a1, i) ==
    IF i >= 7 THEN << >>
    ELSE << (i * a0 + (7 - i) * a1) \div 7 >> \o Ramp7_Swapped(a0, a1, i + 1)

\* the a0 > a1 ramp entries appended for i in range(1, 7)
RECURSIVE Ramp7(_, _, _)
Ramp7(a0, a1, i) ==
    IF i >= 7 THEN <<>>
    ELSE << ((7 - i) * a0 + i * a1) \div 7 >> \o Ramp7(a0, a1, i + 1)

\* the a0 <= a1 ramp with the two weights exchanged
RECURSIVE Ramp5_Swapped(_, _, _)
Ramp5_Swapped(a0, a1, i) ==
    IF i >= 5 THEN << >>
    ELSE << (i * a0 + (5 - i) * a1) \div 5 >> \o Ramp5_Swapped(a0, a1, i + 1)

\* the a0 <= a1 ramp entries appended for i in range(1, 5)
RECURSIVE Ramp5(_, _, _)
Ramp5(a0, a1, i) ==
    IF i >= 5 THEN <<>>
    ELSE << ((5 - i) * a0 + i * a1) \div 5 >> \o Ramp5(a0, a1, i + 1)

\* alphas of decompress_dxt5
Bc3Alphas(a0, a1) ==
    IF a0 > a1
    THEN <<a0, a1>> \o Ramp7(a0, a1, 1)
    ELSE <<a0, a1>> \o Ramp5(a0, a1, 1) \o <<0, 255>>

(***************************************************************************)
(* The assembler: block grid, clipping and pixel writes.                   *)
(***************************************************************************)
\* rounding down instead of up: n // 4
BlockCount_Floor(n) == n \div 4

\* (n + 3) // 4
BlockCount(n) == (n + 3) \div 4

\* block_offset with the multiplication by the stride binding to bx alone
BlockOffset_Unparenthesised(r, c, bw, stride) == r * bw + c * stride

\* block_offset
BlockOffset(r, c, bw, stride) == (r * bw + c) * stride

\* the stride forgotten in the test: block_offset > len(data)
BlockMissing_NoStride(off, stride, len) == off > len

\* the test with >= in place of >: a block that ends with the payload is
\* taken for missing
BlockMissing_Inclusive(off, stride, len) == off + stride >= len

\* the test that skips a block the payload does not hold
BlockMissing(off, stride, len) == off + stride > len

\* off by one in the clipping: x <= width
InImage_Inclusive(x, y, w, h) == x <= w /\ y < h

\* the clipping test of a patch pixel
InImage(x, y, w, h) == x < w /\ y < h

\* pixel_offset
PixelOffset(x, y, w) == (y * w + x) * 4

\* off by one in the slice end: pixels[pixel_offset:pixel_offset+3] = colors[index]
WritePixel1_Short(buf, off, color) == SetSlice(buf, off, off + 3, color)

\* pixels[pixel_offset:pixel_offset+4] = colors[index]
WritePixel1(buf, off, color) == SetSlice(buf, off, off + 4, color)

\* pixels[pixel_offset:pixel_offset+3] = colors[color_idx]
WriteColor5(buf, off, color) == SetSlice(buf, off, off + 3, color)

\* the record of one pixel write: the block, the cell, the pixel, its offset
\* in the buffer, and the colour and alpha indices the cell was given (ai is
\* NoInt in decompress_dxt1, which has no alpha index)
WriteRec(r, c, py, px, x, y, off, ci, ai) ==
    [by |-> r, bx |-> c, py |-> py, px |-> px, x |-> x, y |-> y, off |-> off,
     ci |-> ci, ai |-> ai]

\* the "Write pixels" loops of decompress_dxt1 from cell k = py * 4 + px on;
\* acc is [buf, log]
RECURSIVE Dxt1Cells(_, _, _, _, _, _, _, _)
Dxt1Cells(acc, k, idx, pal, r, c, w, h) ==
    IF k >= 16 THEN acc
    ELSE LET py == k \div 4
             px == k % 4
             x == c * 4 + px
             y == r * 4 + py
         IN IF InImage(x, y, w, h)
            THEN LET index == BitsAt(idx, (py * 4 + px) * 2, 2)
                     off == PixelOffset(x, y, w)
                 IN Dxt1Cells([buf |-> WritePixel1(acc.buf, off, At(pal, index)),
                               log |-> Append(acc.log, WriteRec(r, c, py, px, x, y, off,
                                                                index, NoInt))],
                              k + 1, idx, pal, r, c, w, h)
            ELSE Dxt1Cells(acc, k + 1, idx, pal, r, c, w, h)

\* one iteration of the inner loop of decompress_dxt1, for block (r, c):
\* [buf, log, decoded, err, e0, e1, pal, ramp, idx]
Dxt1Block(buf, data, w, h, r, c) ==
    LET off == BlockOffset(r, c, BlockCount(w), BC1_STRIDE)
        skip == [buf |-> buf, log |-> <<>>, decoded |-> FALSE, err |-> FALSE,
                 e0 |-> NoInt, e1 |-> NoInt, pal |-> NoList, ramp |-> NoList,
                 idx |-> NoList]
    IN IF BlockMissing(off, BC1_STRIDE, Len(data)) THEN skip
       ELSE LET b0 == Slice(data, off, off + 2)
                b1 == Slice(data, off + 2, off + 4)
                bi == Slice(data, off + 4, off + 8)
            IN IF Len(b0) # 2 \/ Len(b1) # 2 \/ Len(bi) # 4
               THEN [skip EXCEPT !.err = TRUE]    \* struct.error
               ELSE LET e0 == UnpackLE16(b0)
                        e1 == UnpackLE16(b1)
                        pal == Bc1Colors(e0, e1)
                        out == Dxt1Cells([buf |-> buf, log |-> <<>>], 0, bi, pal,
                                         r, c, w, h)
                    IN [buf |-> out.buf, log |-> out.log, decoded |-> TRUE,
                        err |-> FALSE, e0 |-> e0, e1 |-> e1, pal |-> pal,
                        ramp |-> NoList, idx |-> bi]

\* the pixel loops of decompress_dxt5 from cell k on; acc is [buf, log, err]
RECURSIVE Dxt5Cells(_, _, _, _, _, _, _, _, _, _)
Dxt5Cells(acc, k, idx, aidx, pal, ramp, r, c, w, h) ==
    IF k >= 16 \/ acc.err THEN acc
    ELSE LET py == k \div 4
             px == k % 4
             x == c * 4 + px
             y == r * 4 + py
         IN IF InImage(x, y, w, h)
            THEN LET color_idx == BitsAt(idx, (py * 4 + px) * 2, 2)
                     alpha_idx == BitsAt(aidx, (py * 4 + px) * 3, 3)
                     off == PixelOffset(x, y, w)
                     b1 == WriteColor5(acc.buf, off, At(pal, color_idx))
                 IN IF off + 3 >= Len(b1)
                    THEN [acc EXCEPT !.buf = b1, !.err = TRUE]   \* IndexError
                    ELSE Dxt5Cells([buf |-> [b1 EXCEPT ![off + 4] = At(ramp, alpha_idx)],
                                    log |-> Append(acc.log, WriteRec(r, c, py, px, x, y, off,
                                                                      color_idx, alpha_idx)),
                                    err |-> FALSE],
                                   k + 1, idx, aidx, pal, ramp, r, c, w, h)
            ELSE Dxt5Cells(acc, k + 1, idx, aidx, pal, ramp, r, c, w, h)

\* one iteration of the inner loop of decompress_dxt5, for block (r, c):
\* [buf, log, decoded, err, e0, e1, pal, ramp, idx]
Dxt5Block(buf, data, w, h, r, c) ==
    LET off == BlockOffset(r, c, BlockCount(w), BC3_STRIDE)
        skip == [buf |-> buf, log |-> <<>>, decoded |-> FALSE, err |-> FALSE,
                 e0 |-> NoInt, e1 |-> NoInt, pal |-> NoList, ramp |-> NoList,
                 idx |-> NoList]
    IN IF BlockMissing(off, BC3_STRIDE, Len(data)) THEN skip
       ELSE LET ab == Slice(data, off, off + 8)
                b0 == Slice(data, off + 8, off + 10)
                b1 == Slice(data, off + 10, off + 12)
                bi == Slice(data, off + 12, off + 16)
            IN IF \/ off + 1 >= Len(data)          \* IndexError on data[...]
                  \/ Len(ab) # 8 \/ Len(b0) # 2    \* struct.error
                  \/ Len(b1) # 2 \/ Len(bi) # 4
               THEN [skip EXCEPT !.err = TRUE]
               ELSE LET a0 == At(data, off)
                        a1 == At(data, off + 1)
                        \* unpack('<Q', ...)[0] >> 16: bytes 2..7 of the field
                        aidx == SubSeq(ab, 3, 8)
                        ramp == Bc3Alphas(a0, a1)
                        e0 == UnpackLE16(b0)
                        e1 == UnpackLE16(b1)
                        pal == Bc3Colors(e0, e1)
                        out == Dxt5Cells([buf |-> buf, log |-> <<>>, err |-> FALSE],
                                         0, bi, aidx, pal, ramp, r, c, w, h)
                    IN [buf |-> out.buf, log |-> out.log, decoded |-> TRUE,
                        err |-> out.err, e0 |-> e0, e1 |-> e1, pal |-> pal,
                        ramp |-> ramp, idx |-> bi]

(***************************************************************************)
(* The PNG writer.                                                         *)
(***************************************************************************)
\* struct.pack('>I', n), for 0 <= n < 2^31
PackBE32(n) == << (n \div 16777216) % 256, (n \div 65536) % 256,
                  (n \div 256) % 256, n % 256 >>

\* b'\x89PNG\r\n\x1a\n'
PNG_SIGNATURE == << 137, 80, 78, 71, 13, 10, 26, 10 >>

TAG_IHDR == << 73, 72, 68, 82 >>

TAG_IDAT == << 73, 68, 65, 84 >>

TAG_IEND == << 73, 69, 78, 68 >>

\* a xor b for 0 <= a, b < 2^n
RECURSIVE XorBits(_, _, _)
XorBits(a, b, n) ==
    IF n = 0 THEN 0
    ELSE ((a + b) % 2) + 2 * XorBits(a \div 2, b \div 2, n - 1)

\* xor of two 4-bit values, tabulated
XorTable == [a \in 0..15 |-> [b \in 0..15 |-> XorBits(a, b, 4)]]

\* a xor b for 0 <= a, b < 16
XorNib(a, b) == XorTable[a][b]

\* A 32-bit value is kept as its 8 hexadecimal digits, lowest first.
\* x ^ y
Xor32(x, y) == << XorNib(x[1], y[1]), XorNib(x[2], y[2]), XorNib(x[3], y[3]),
                  XorNib(x[4], y[4]), XorNib(x[5], y[5]), XorNib(x[6], y[6]),
                  XorNib(x[7], y[7]), XorNib(x[8], y[8]) >>

\* x >> 4
Shr4(x) == << x[2], x[3], x[4], x[5], x[6], x[7], x[8], 0 >>

\* x >> 1
Shr1(x) == << (x[1] \div 2) + 8 * (x[2] % 2), (x[2] \div 2) + 8 * (x[3] % 2),
              (x[3] \div 2) + 8 * (x[4] % 2), (x[4] \div 2) + 8 * (x[5] % 2),
              (x[5] \div 2) + 8 * (x[6] % 2), (x[6] \div 2) + 8 * (x[7] % 2),
              (x[7] \div 2) + 8 * (x[8] % 2), x[8] \div 2 >>

\* 0xEDB88320, the reflected CRC-32 (ISO 3309) polynomial
CRC_POLY == << 0, 2, 3, 8, 8, 11, 13, 14 >>

\* one bit of the CRC register, n times
RECURSIVE CrcShift(_, _)
CrcShift(x, n) ==
    IF n = 0 THEN x
    ELSE CrcShift(IF x[1] % 2 = 1 THEN Xor32(Shr1(x), CRC_POLY) ELSE Shr1(x), n - 1)

\* the CRC-32 table entry of each 4-bit value
CrcTable == [v \in 0..15 |-> CrcShift(<< v, 0, 0, 0, 0, 0, 0, 0 >>, 4)]

\* the register after 4 more message bits
CrcNib(x, v) == Xor32(CrcTable[XorNib(x[1], v)], Shr4(x))

\* the register x after bytes lo..hi (1-based) of b, fed in order.  The range
\* is halved to keep TLC's evaluation shallow, and the test on x[1] has TLC
\* evaluate the register before the second half starts.
RECURSIVE CrcRun(_, _, _, _)
CrcRun(x, b, lo, hi) ==
    IF x[1] >= 0 /\ lo > hi THEN x
    ELSE IF lo = hi THEN CrcNib(CrcNib(x, b[lo] % 16), b[lo] \div 16)
    ELSE LET mid == (lo + hi) \div 2
         IN CrcRun(CrcRun(x, b, lo, mid), b, mid + 1, hi)

\* pack_be('I', zlib.crc32(b) & 0xffffffff): the 4 checksum bytes
Crc32(b) ==
    LET x == CrcRun(<< 15, 15, 15, 15, 15, 15, 15, 15 >>, b, 1, Len(b))
    IN << 16 * (15 - x[8]) + (15 - x[7]), 16 * (15 - x[6]) + (15 - x[5]),
          16 * (15 - x[4]) + (15 - x[3]), 16 * (15 - x[2]) + (15 - x[1]) >>

\* the two Adler-32 sums r = << a, b >> after bytes lo..hi (1-based) of b, fed
\* in order; halved and evaluated like CrcRun
RECURSIVE AdlerRun(_, _, _, _)
AdlerRun(r, b, lo, hi) ==
    IF r[1] >= 0 /\ lo > hi THEN r
    ELSE IF lo = hi
         THEN << (r[1] + b[lo]) % 65521, (r[2] + ((r[1] + b[lo]) % 65521)) % 65521 >>
    ELSE LET mid == (lo + hi) \div 2
         IN AdlerRun(AdlerRun(r, b, lo, mid), b, mid + 1, hi)

\* the 4 Adler-32 bytes that end a zlib stream
Adler32(b) ==
    LET r == AdlerRun(<< 1, 0 >>, b, 1, Len(b))
    IN << r[2] \div 256, r[2] % 256, r[1] \div 256, r[1] % 256 >>

\* zlib.compress(raw, 9), as a zlib stream (RFC 1950) of level 9 that holds raw
\* in one stored DEFLATE block (RFC 1951): which block types the library picks
\* is not modelled, the container and its checksum are
ZlibCompress(raw) ==
    << 120, 218, 1 >>
    \o << Len(raw) % 256, Len(raw) \div 256 >>
    \o << 255 - (Len(raw) % 256), 255 - (Len(raw) \div 256) >>
    \o raw
    \o Adler32(raw)

\* a chunk whose checksum covers the data alone
Chunk_CrcOfData(tag, data) == PackBE32(Len(data)) \o tag \o data \o Crc32(data)

\* pack_be('I', len(data)) + tag + data + pack_be('I', crc32(tag + data))
Chunk(tag, data) == PackBE32(Len(data)) \o tag \o data \o Crc32(tag \o data)

\* the rows from row y on, without their filter bytes
RECURSIVE Scanlines_NoFilter(_, _, _, _)
Scanlines_NoFilter(buf, w, h, y) ==
    IF y >= h THEN << >>
    ELSE Slice(buf, y * w * 4, (y + 1) * w * 4) \o Scanlines_NoFilter(buf, w, h, y + 1)

\* raw of write_png, from row y on
RECURSIVE Scanlines(_, _, _, _)
Scanlines(buf, w, h, y) ==
    IF y >= h THEN << >>
    ELSE << 0 >> \o Slice(buf, y * w * 4, (y + 1) * w * 4)
         \o Scanlines(buf, w, h, y + 1)

\* png_data of write_png
PngData(w, h, buf) ==
    PNG_SIGNATURE
    \o Chunk(TAG_IHDR, PackBE32(w) \o PackBE32(h) \o << 8, 6, 0, 0, 0 >>)
    \o Chunk(TAG_IDAT, ZlibCompress(Scanlines(buf, w, h, 0)))
    \o Chunk(TAG_IEND, << >>)

(***************************************************************************)
(* convert_bimage and the decoders it calls, step by step.                 *)
(***************************************************************************)
decVars == << decoder, pixels, by, bx, c0, c1, colors, alphas, indices,
              visited, writes >>

hdrVars == << width, height, fmt, image_data >>

\* the exception is not caught and ends the program
Raise_Abort ==
    /\ pc' = "exit"
    /\ result' = "False"

\* except Exception: ... return False
Raise ==
    /\ pc' = "returned"
    /\ result' = "False"

\* lines 165-180: the header fields and the payload are read from the file
ReadHeader ==
    /\ pc = "read"
    /\ LET wb == Slice(file, OFF_WIDTH, OFF_WIDTH + 2)
           hb == Slice(file, OFF_HEIGHT, OFF_HEIGHT + 2)
           fb == Slice(file, OFF_FORMAT, OFF_FORMAT + 1)
       IN IF file = Unreadable \/ Len(wb) # 2 \/ Len(hb) # 2 \/ Len(fb) = 0
          THEN \* OSError from open, struct.error on a short read, IndexError
               \* on f.read(1)[0]
               /\ Raise
               /\ UNCHANGED hdrVars
          ELSE /\ width' = UnpackBE16(wb)
               /\ height' = UnpackBE16(hb)
               /\ fmt' = fb[1]
               /\ image_data' = Slice(file, OFF_DATA, Len(file))
               /\ pc' = "dispatch"
               /\ UNCHANGED result
    /\ UNCHANGED << toolVars, mainVars, file, decVars, rgba, outfile >>

\* the elif turned into an else: every other code is decoded as BC1
PickDecoder_Fallthrough(f) == IF f = FMT_BC3 THEN "dxt5" ELSE "dxt1"

\* the if / elif / else on the format code: the decoder called, if any
PickDecoder(f) ==
    IF f = FMT_BC3 THEN "dxt5"
    ELSE IF f = FMT_BC1 THEN "dxt1"
    ELSE "none"

\* lines 186-194: the decoder is picked by the format code
Dispatch ==
    /\ pc = "dispatch"
    /\ IF PickDecoder(fmt) = "none"
       THEN /\ pc' = "returned"
            /\ result' = "False"
            /\ UNCHANGED decoder
       ELSE /\ decoder' = PickDecoder(fmt)
            /\ pc' = PickDecoder(fmt) \o "_enter"
            /\ UNCHANGED result
    /\ UNCHANGED << toolVars, mainVars, file, hdrVars, pixels, by, bx, c0, c1, colors, alphas,
                    indices, visited, writes, rgba, outfile >>

\* lines 8-11 and 68-71: the buffer is allocated and the loops start
DecoderEnter(name) ==
    /\ pc = name \o "_enter"
    /\ pixels' = Zeros(width * height * 4)
    /\ by' = 0
    /\ bx' = 0
    /\ pc' = name \o "_loop"
    /\ UNCHANGED << toolVars, mainVars, file, hdrVars, decoder, c0, c1, colors, alphas, indices,
                    visited, writes, rgba, outfile, result >>

Dxt1Enter == DecoderEnter("dxt1")

Dxt5Enter == DecoderEnter("dxt5")

\* the effect of one inner-loop iteration whose outcome is r
BlockDone(r, stride) ==
    IF r.err
    THEN /\ Raise
         /\ UNCHANGED << pixels, bx, c0, c1, colors, alphas, indices, visited,
                         writes >>
    ELSE /\ pixels' = r.buf
         /\ writes' = writes \o r.log
         /\ visited' = Append(visited,
                [by |-> by, bx |-> bx,
                 off |-> BlockOffset(by, bx, BlockCount(width), stride),
                 decoded |-> r.decoded])
         /\ IF r.decoded
            THEN /\ c0' = r.e0
                 /\ c1' = r.e1
                 /\ colors' = r.pal
                 /\ alphas' = r.ramp
                 /\ indices' = r.idx
            ELSE UNCHANGED << c0, c1, colors, alphas, indices >>
         /\ bx' = bx + 1
         /\ UNCHANGED << pc, result >>

\* lines 14-62: one iteration of the inner loop of decompress_dxt1
Dxt1Step ==
    /\ pc = "dxt1_loop"
    /\ by < BlockCount(height)
    /\ bx < BlockCount(width)
    /\ BlockDone(Dxt1Block(pixels, image_data, width, height, by, bx), BC1_STRIDE)
    /\ UNCHANGED << toolVars, mainVars, file, hdrVars, decoder, by, rgba, outfile >>

\* lines 74-126: one iteration of the inner loop of decompress_dxt5
Dxt5Step ==
    /\ pc = "dxt5_loop"
    /\ by < BlockCount(height)
    /\ bx < BlockCount(width)
    /\ BlockDone(Dxt5Block(pixels, image_data, width, height, by, bx), BC3_STRIDE)
    /\ UNCHANGED << toolVars, mainVars, file, hdrVars, decoder, by, rgba, outfile >>

\* lines 13-14 and 73-74: the inner loop is exhausted, the outer one advances
RowEnd(name) ==
    /\ pc = name \o "_loop"
    /\ by < BlockCount(height)
    /\ bx >= BlockCount(width)
    /\ by' = by + 1
    /\ bx' = 0
    /\ UNCHANGED << toolVars, mainVars, file, pc, hdrVars, decoder, pixels, c0, c1, colors, alphas,
                    indices, visited, writes, rgba, outfile, result >>

Dxt1RowEnd == RowEnd("dxt1")

Dxt5RowEnd == RowEnd("dxt5")

\* lines 64 and 128, 188 and 191: return bytes(pixels), bound to rgba
DecoderReturn(name) ==
    /\ pc = name \o "_loop"
    /\ by >= BlockCount(height)
    /\ rgba' = pixels
    /\ pc' = "write_png"
    /\ UNCHANGED << toolVars, mainVars, file, hdrVars, decVars, outfile, result >>

Dxt1Return == DecoderReturn("dxt1")

Dxt5Return == DecoderReturn("dxt5")

\* lines 196-202: the PNG is written and convert_bimage returns True
WritePng ==
    /\ pc = "write_png"
    /\ outfile' = PngData(width, height, rgba)
    /\ result' = "True"
    /\ pc' = "returned"
    /\ UNCHANGED << toolVars, mainVars, file, hdrVars, decVars, rgba >>

(***************************************************************************)
(* Input files.                                                            *)
(***************************************************************************)
\* the 0x48 header bytes of a file: the three fields the converter reads, and
\* zero everywhere else
Header(w, h, f) ==
    [i \in 1..OFF_DATA |->
        CASE i = OFF_WIDTH + 1 -> w \div 256
          [] i = OFF_WIDTH + 2 -> w % 256
          [] i = OFF_HEIGHT + 1 -> h \div 256
          [] i = OFF_HEIGHT + 2 -> h % 256
          [] i = OFF_FORMAT + 1 -> f
          [] OTHER -> 0]

\* byte i (1-based) of payload number seed
PayloadByte(seed, i) == (7 * i * i + (13 * seed + 3) * i + 29 * seed) % 256

\* the first n bytes of payload number seed
Payload(seed, n) == [i \in 1..n |-> PayloadByte(seed, i)]

\* bytes per block of a format the converter knows
Stride(f) == IF f = FMT_BC3 THEN BC3_STRIDE ELSE BC1_STRIDE

\* the format codes tried: the two known ones and some others
Formats == { FMT_BC1, FMT_BC3, 0, 9, 12, 255 }

\* payload lengths tried for a w x h image of format f: everything from the
\* empty payload to MaxExtra bytes more than the block grid needs
PayloadLens(w, h, f) ==
    IF f \in { FMT_BC1, FMT_BC3 }
    THEN 0..(BlockCount(w) * BlockCount(h) * Stride(f) + MaxExtra)
    ELSE 0..MaxExtra

\* lengths at which a file is cut inside its header
ShortLens == { 0, OFF_WIDTH + 1, OFF_WIDTH + 2, OFF_HEIGHT + 1, OFF_HEIGHT + 2,
               OFF_FORMAT, OFF_FORMAT + 1, OFF_DATA - 1 }

InputFiles ==
    { Header(w, h, f) \o Payload(seed, n) :
        << w, h, f, seed, n >> \in
            { t \in (0..MaxDim) \X (0..MaxDim) \X Formats \X (1..NumSeeds)
                    \X (0..(4 * BC3_STRIDE + MaxExtra)) :
                t[5] \in PayloadLens(t[1], t[2], t[3]) } }
    \cup { SubSeq(Header(w, h, f), 1, n) :
             << w, h, f, n >> \in {1, 4} \X {1} \X {FMT_BC1, FMT_BC3} \X ShortLens }

\* no model converter runs
NoModel ==
    /\ tool = "none"
    /\ file_data = NoBytes
    /\ search_offset = NoInt
    /\ part_number = NoInt
    /\ total_extracted = NoInt
    /\ marker_offset = NoInt
    /\ offset = NoInt
    /\ vertex_count = NoInt
    /\ face_count = NoInt
    /\ vertices = NoInt
    /\ bytes_read = NoInt
    /\ strip_indices = << >>
    /\ faces = << >>
    /\ objs = << >>

\* extract_resources does not run
NoResources ==
    /\ nfiles = NoInt
    /\ entries = << >>
    /\ entry_i = NoInt
    /\ uncompressed_count = NoInt
    /\ compressed_count = NoInt
    /\ failed_count = NoInt
    /\ counted = << >>

\* main is not running: convert_bimage or write_png is called on its own
NoMain ==
    /\ files = << >>
    /\ file_idx = NoInt
    /\ success_count = NoInt
    /\ saved = << >>
    /\ calls = << >>

\* the state before convert_bimage opens the file
Start(f) ==
    /\ NoMain
    /\ NoModel
    /\ NoResources
    /\ file = f
    /\ pc = "read"
    /\ width = NoInt
    /\ height = NoInt
    /\ fmt = NoInt
    /\ image_data = NoBytes
    /\ decoder = "none"
    /\ pixels = NoBytes
    /\ by = NoInt
    /\ bx = NoInt
    /\ c0 = NoInt
    /\ c1 = NoInt
    /\ colors = NoList
    /\ alphas = NoList
    /\ indices = NoList
    /\ visited = << >>
    /\ writes = << >>
    /\ rgba = NoBytes
    /\ outfile = NoBytes
    /\ result = None

Init == \E f \in InputFiles : Start(f)

Next ==
    \/ ReadHeader
    \/ Dispatch
    \/ Dxt1Enter
    \/ Dxt1Step
    \/ Dxt1RowEnd
    \/ Dxt1Return
    \/ Dxt5Enter
    \/ Dxt5Step
    \/ Dxt5RowEnd
    \/ Dxt5Return
    \/ WritePng

Spec == Init /\ [][Next]_vars

(***************************************************************************)
(* The decoders as functions of their arguments: the loops above, run to   *)
(* the end.                                                                *)
(***************************************************************************)
\* one block of either decoder
DecodeBlock(f, buf, data, w, h, r, c) ==
    IF f = FMT_BC3 THEN Dxt5Block(buf, data, w, h, r, c)
    ELSE Dxt1Block(buf, data, w, h, r, c)

\* the loops from block (r, c) on; NoBytes when an exception ends them
RECURSIVE DecodeFrom(_, _, _, _, _, _, _)
DecodeFrom(f, buf, data, w, h, r, c) ==
    IF buf = NoBytes \/ r >= BlockCount(h) THEN buf
    ELSE IF c >= BlockCount(w) THEN DecodeFrom(f, buf, data, w, h, r + 1, 0)
    ELSE LET b == DecodeBlock(f, buf, data, w, h, r, c)
         IN DecodeFrom(f, IF b.err THEN NoBytes ELSE b.buf, data, w, h, r, c + 1)

\* decompress_dxt1(data, w, h) for f = FMT_BC1, decompress_dxt5 for FMT_BC3
Decompress(f, data, w, h) == DecodeFrom(f, Zeros(w * h * 4), data, w, h, 0, 0)

(***************************************************************************)
(* write_png called on its own, with any buffer.                           *)
(***************************************************************************)
\* lines 130-160: write_png(filename, width, height, rgba_data)
CallWritePng ==
    /\ pc = "write_png_call"
    /\ outfile' = PngData(width, height, rgba)
    /\ pc' = "returned"
    /\ UNCHANGED << toolVars, mainVars, file, hdrVars, decVars, rgba, result >>

\* the state before write_png(filename, w, h, buf) runs
StartPng(w, h, buf) ==
    /\ NoMain
    /\ NoModel
    /\ NoResources
    /\ file = NoBytes
    /\ pc = "write_png_call"
    /\ width = w
    /\ height = h
    /\ fmt = NoInt
    /\ image_data = NoBytes
    /\ decoder = "none"
    /\ pixels = NoBytes
    /\ by = NoInt
    /\ bx = NoInt
    /\ c0 = NoInt
    /\ c1 = NoInt
    /\ colors = NoList
    /\ alphas = NoList
    /\ indices = NoList
    /\ visited = << >>
    /\ writes = << >>
    /\ rgba = buf
    /\ outfile = NoBytes
    /\ result = None

InitPng ==
    \E w \in 0..MaxDim, h \in 0..MaxDim, seed \in 1..NumSeeds :
        \E n \in 0..(w * h * 4 + MaxExtra) : StartPng(w, h, Payload(seed, n))

NextPng == CallWritePng

SpecPng == InitPng /\ [][NextPng]_vars

(***************************************************************************)
(* convert_bimage on 4 x 4 BC1 images of one block, over many endpoints.   *)
(***************************************************************************)
\* struct.pack('<H', v)
PackLE16(v) == << v % 256, v \div 256 >>

\* endpoint values: every value of each channel alone, and some mixed ones
Endpoints ==
    { r * 2048 : r \in 0..31 } \cup { g * 32 : g \in 0..63 } \cup (0..31)
    \cup { 65535, 4660, 22136, 33808, 2113, 31727, 9265 }

\* the second endpoints paired with endpoint e
Partners(e) == { e, 0, 65535, 2113, 31727 }

\* index bytes: each byte holds the four 2-bit indices of one row
IndexBytes == { 0, 255, 27, 228 }

InitBc1 ==
    \E e0 \in Endpoints, ib \in IndexBytes :
        \E e1 \in Partners(e0) :
            Start(Header(4, 4, FMT_BC1) \o PackLE16(e0) \o PackLE16(e1)
                  \o << ib, ib, ib, ib >>)

NextBc1 ==
    \/ ReadHeader
    \/ Dispatch
    \/ Dxt1Enter
    \/ Dxt1Step
    \/ Dxt1RowEnd
    \/ Dxt1Return
    \/ WritePng

SpecBc1 == InitBc1 /\ [][NextBc1]_vars

(***************************************************************************)
(* convert_bimage on 4 x 4 BC3 images of one block, over many alpha        *)
(* endpoints, alpha index fields and colour endpoints.                     *)
(***************************************************************************)
\* alpha endpoint values
AlphaEnds == { 0, 1, 2, 3, 5, 7, 35, 36, 37, 72, 73, 109, 127, 128, 145, 146,
               182, 200, 218, 219, 253, 254, 255 }

\* 6-byte alpha index fields: sixteen 3-bit indices, lowest bits first; the
\* second one holds the indices 0, 1, .., 7, 0, 1, .., 7
AlphaFields == { << 0, 0, 0, 0, 0, 0 >>,
                 << 136, 198, 250, 136, 198, 250 >>,
                 << 83, 161, 126, 28, 233, 53 >> }

\* 4-byte colour index fields
ColourFields == { << 27, 228, 0, 255 >>, << 180, 57, 198, 141 >> }

\* the 16 bytes of a BC3 block
Bc3BlockBytes(a0, a1, af, e0, e1, cf) ==
    << a0, a1 >> \o af \o PackLE16(e0) \o PackLE16(e1) \o cf

InitBc3 ==
    \/ \E a0 \in AlphaEnds, a1 \in AlphaEnds, af \in AlphaFields :
           Start(Header(4, 4, FMT_BC3)
                 \o Bc3BlockBytes(a0, a1, af, 4660, 22136, << 27, 228, 0, 255 >>))
    \/ \E e0 \in Endpoints, cf \in ColourFields :
           \E e1 \in Partners(e0) :
               Start(Header(4, 4, FMT_BC3)
                     \o Bc3BlockBytes(200, 36, << 83, 161, 126, 28, 233, 53 >>,
                                      e0, e1, cf))

NextBc3 ==
    \/ ReadHeader
    \/ Dispatch
    \/ Dxt5Enter
    \/ Dxt5Step
    \/ Dxt5RowEnd
    \/ Dxt5Return
    \/ WritePng

SpecBc3 == InitBc3 /\ [][NextBc3]_vars

(***************************************************************************)
(* main: the loop over the command-line arguments.                         *)
(***************************************************************************)
\* the arguments tried: not a file, a file that cannot be opened, a file cut
\* inside its header, an unknown format code, and files that convert (one of
\* them with a payload shorter than its block grid)
BatchArgs ==
    { NotAFile,
      Unreadable,
      SubSeq(Header(1, 1, FMT_BC1), 1, OFF_HEIGHT + 1),
      Header(2, 2, 9) \o Payload(1, 8),
      Header(2, 2, FMT_BC1) \o Payload(1, 8),
      Header(1, 1, FMT_BC3) \o Payload(2, 16),
      Header(5, 1, FMT_BC1) \o Payload(1, 11) }

\* every list of n arguments
RECURSIVE ArgLists(_)
ArgLists(n) ==
    IF n = 0 THEN { << >> }
    ELSE { << a >> \o rest : a \in BatchArgs, rest \in ArgLists(n - 1) }

\* the state in which main starts, with sys.argv[1:] = argv
InitBatch ==
    \E n \in 0..MaxFiles :
        \E argv \in ArgLists(n) :
            /\ files = argv
            /\ file_idx = 0
            /\ success_count = NoInt
            /\ saved = [k \in 1..n |-> NoBytes]
            /\ calls = << >>
            /\ NoModel
            /\ NoResources
            /\ file = NoBytes
            /\ pc = "main"
            /\ width = NoInt
            /\ height = NoInt
            /\ fmt = NoInt
            /\ image_data = NoBytes
            /\ decoder = "none"
            /\ pixels = NoBytes
            /\ by = NoInt
            /\ bx = NoInt
            /\ c0 = NoInt
            /\ c1 = NoInt
            /\ colors = NoList
            /\ alphas = NoList
            /\ indices = NoList
            /\ visited = << >>
            /\ writes = << >>
            /\ rgba = NoBytes
            /\ outfile = NoBytes
            /\ result = None

\* lines 213-219: without arguments main returns at once; otherwise
\* success_count = 0 and the loop starts
MainEnter ==
    /\ pc = "main"
    /\ IF Len(files) = 0
       THEN pc' = "exit" /\ UNCHANGED success_count
       ELSE pc' = "main_loop" /\ success_count' = 0
    /\ UNCHANGED << toolVars, files, file_idx, saved, calls, file, hdrVars, decVars, rgba,
                    outfile, result >>

\* lines 221-223: the next argument is taken; if it is a file,
\* convert_bimage is called on it, with fresh locals
MainFor ==
    /\ pc = "main_loop"
    /\ file_idx < Len(files)
    /\ IF files[file_idx + 1] = NotAFile
       THEN /\ file_idx' = file_idx + 1
            /\ UNCHANGED << pc, calls, file, hdrVars, decVars, rgba, outfile,
                            result >>
       ELSE /\ calls' = Append(calls, file_idx)
            /\ file' = files[file_idx + 1]
            /\ pc' = "read"
            /\ width' = NoInt
            /\ height' = NoInt
            /\ fmt' = NoInt
            /\ image_data' = NoBytes
            /\ decoder' = "none"
            /\ pixels' = NoBytes
            /\ by' = NoInt
            /\ bx' = NoInt
            /\ c0' = NoInt
            /\ c1' = NoInt
            /\ colors' = NoList
            /\ alphas' = NoList
            /\ indices' = NoList
            /\ visited' = << >>
            /\ writes' = << >>
            /\ rgba' = NoBytes
            /\ outfile' = NoBytes
            /\ result' = None
            /\ UNCHANGED file_idx
    /\ UNCHANGED << toolVars, files, success_count, saved >>

\* lines 223-224: convert_bimage has returned; success_count is incremented
\* if it returned True, and the loop goes on
MainReturn ==
    /\ pc = "returned"
    /\ file_idx # NoInt
    /\ success_count' = IF result = "True" THEN success_count + 1 ELSE success_count
    /\ saved' = [saved EXCEPT ![file_idx + 1] = outfile]
    /\ file_idx' = file_idx + 1
    /\ pc' = "main_loop"
    /\ UNCHANGED << toolVars, files, calls, file, hdrVars, decVars, rgba, outfile, result >>

\* lines 226-228: the loop is over, the summary is printed
MainExit ==
    /\ pc = "main_loop"
    /\ file_idx = Len(files)
    /\ pc' = "exit"
    /\ UNCHANGED << toolVars, files, file_idx, success_count, saved, calls, file, hdrVars,
                    decVars, rgba, outfile, result >>

NextBatch ==
    \/ MainEnter
    \/ MainFor
    \/ MainReturn
    \/ MainExit
    \/ ReadHeader
    \/ Dispatch
    \/ Dxt1Enter
    \/ Dxt1Step
    \/ Dxt1RowEnd
    \/ Dxt1Return
    \/ Dxt5Enter
    \/ Dxt5Step
    \/ Dxt5RowEnd
    \/ Dxt5Return
    \/ WritePng

SpecBatch == InitBatch /\ [][NextBatch]_vars

(***************************************************************************)
(* convert_bimage on the one-block images of both formats.                 *)
(***************************************************************************)
InitBlock == InitBc1 \/ InitBc3

SpecBlock == InitBlock /\ [][Next]_vars

(***************************************************************************)
(* bmodel.py: extract_triangle_strip_faces.                                *)
(***************************************************************************)
\* convert_bimage does not run
NoImage ==
    /\ file = NoBytes
    /\ width = NoInt
    /\ height = NoInt
    /\ fmt = NoInt
    /\ image_data = NoBytes
    /\ decoder = "none"
    /\ pixels = NoBytes
    /\ by = NoInt
    /\ bx = NoInt
    /\ c0 = NoInt
    /\ c1 = NoInt
    /\ colors = NoList
    /\ alphas = NoList
    /\ indices = NoList
    /\ visited = << >>
    /\ writes = << >>
    /\ rgba = NoBytes
    /\ outfile = NoBytes
    /\ result = None

\* the variables of bimage.py
imageVars == << file, hdrVars, decVars, rgba, outfile, result, mainVars >>

\* struct.pack('>H', v)
PackBE16(v) == << v \div 256, v % 256 >>

\* the triangles of one strip, from triangle i on: (s[i], s[i+1], s[i+2])
\* for even i, (s[i], s[i+2], s[i+1]) for odd i.  Each strip entry is an
\* index with the offset it was read at; a triangle keeps both.
RECURSIVE StripTriangles(_, _)
StripTriangles(strip, i) ==
    IF i >= Len(strip) - 2 THEN << >>
    ELSE LET a == strip[i + 1]
             b == IF i % 2 = 0 THEN strip[i + 2] ELSE strip[i + 3]
             c == IF i % 2 = 0 THEN strip[i + 3] ELSE strip[i + 2]
         IN << [tri |-> << a.idx, b.idx, c.idx >>, at |-> << a.at, b.at, c.at >>] >>
            \o StripTriangles(strip, i + 1)

\* an exception nothing catches: the program ends with a traceback
Crash == pc' = "crashed"

\* lines 119-150: one iteration of the while loop of the strip reader
StripStep ==
    /\ pc = "strip_loop"
    /\ bytes_read < face_count * 2
    /\ LET wb == Slice(file_data, offset, offset + 2)
       IN IF Len(wb) # 2
          THEN \* struct.error in read_int16_be
               /\ Crash
               /\ UNCHANGED << offset, bytes_read, strip_indices, faces >>
          ELSE LET idx == UnpackBE16(wb)
               IN /\ offset' = offset + 2
                  /\ bytes_read' = bytes_read + 2
                  /\ IF idx = STRIP_END
                     THEN /\ IF Len(strip_indices) >= 3
                             THEN /\ faces' = faces \o StripTriangles(strip_indices, 0)
                                  /\ strip_indices' = << >>
                             ELSE UNCHANGED << faces, strip_indices >>
                          /\ UNCHANGED pc
                     ELSE /\ strip_indices' =
                                Append(strip_indices, [idx |-> idx, at |-> offset])
                          /\ pc' = IF bytes_read + 2 > face_count * 4
                                   THEN "strip_rest" ELSE pc
                          /\ UNCHANGED faces
    /\ UNCHANGED << imageVars, resVars, tool, file_data, search_offset,
                    part_number, total_extracted, marker_offset, vertex_count,
                    face_count, vertices, objs >>

\* lines 152-160: the loop is over; a remaining strip of 3 or more indices
\* is converted, and faces and offset are returned
StripRest ==
    /\ \/ pc = "strip_loop" /\ bytes_read >= face_count * 2
       \/ pc = "strip_rest"
    /\ faces' = IF Len(strip_indices) >= 3
                THEN faces \o StripTriangles(strip_indices, 0)
                ELSE faces
    /\ pc' = "faces_done"
    /\ UNCHANGED << imageVars, resVars, tool, file_data, search_offset,
                    part_number, total_extracted, marker_offset, offset,
                    vertex_count, face_count, vertices, bytes_read,
                    strip_indices, objs >>

\* face data of n words: word p is the terminator or the index p
RECURSIVE StripData(_)
StripData(n) ==
    IF n = 0 THEN { << >> }
    ELSE { d \o PackBE16(w) : d \in StripData(n - 1), w \in { n - 1, STRIP_END } }

\* extract_triangle_strip_faces(data, 0, fc) is called; fc may exceed the
\* number of words the data holds
InitStrip ==
    \E n \in 0..MaxWords :
        \E d \in StripData(n), fc \in 0..(n + 1) :
            /\ NoImage
            /\ NoMain
            /\ NoResources
            /\ pc = "strip_loop"
            /\ tool = "bmodel"
            /\ file_data = d
            /\ search_offset = NoInt
            /\ part_number = NoInt
            /\ total_extracted = NoInt
            /\ marker_offset = NoInt
            /\ offset = 0
            /\ vertex_count = NoInt
            /\ face_count = fc
            /\ vertices = NoInt
            /\ bytes_read = 0
            /\ strip_indices = << >>
            /\ faces = << >>
            /\ objs = << >>

NextStrip ==
    \/ StripStep
    \/ StripRest

SpecStrip == InitStrip /\ [][NextStrip]_vars

(***************************************************************************)
(* bmodel.py and bmd6model.py: main's extraction loop and extract_model.   *)
(* The parameter t is the converter, "bmodel" or "bmd6model".              *)
(***************************************************************************)
HEADER_SIZE(t) == IF t = "bmodel" THEN 32 ELSE 64

BUFFER_MARKER(t) ==
    IF t = "bmodel" THEN << 255, 255, 255, 255 >> ELSE << 0, 0, 0, 1, 0, 0 >>

SKIP_TO_VERTEX_COUNT(t) == IF t = "bmodel" THEN 6 ELSE 0

SKIP_TO_FACE_COUNT(t) == 2

SKIP_TO_FIRST_VERTEX(t) == IF t = "bmodel" THEN 44 ELSE 24

VERTEX_STRIDE(t) == 32

\* data.find(m, start): the lowest offset >= start at which m occurs, or -1
Find(d, m, start) ==
    LET hits == { i \in start..(Len(d) - Len(m)) : SubSeq(d, i + 1, i + Len(m)) = m }
    IN IF hits = { } THEN 0 - 1
       ELSE CHOOSE i \in hits : \A j \in hits : i <= j

\* next_search_offset = offset, with the marker the search found aside
NextSearch_AtMarker(off, mark) == mark

\* next_search_offset = offset
NextSearch(off, mark) == off

\* what the actions of extract_model leave alone
modelFrame == << imageVars, resVars, tool, file_data, part_number,
                 total_extracted, objs >>

\* the call of extract_model and find_buffer_marker; without a marker
\* extract_model returns None and main leaves its loop
ModelSearch ==
    /\ pc = "model_call"
    /\ marker_offset' = Find(file_data, BUFFER_MARKER(tool), search_offset)
    /\ pc' = IF marker_offset' = 0 - 1 THEN "model_done" ELSE "model_counts"
    /\ UNCHANGED << modelFrame, search_offset, offset, vertex_count, face_count,
                    vertices, bytes_read, strip_indices, faces >>

\* the two counts are read behind the marker
ModelCounts ==
    /\ pc = "model_counts"
    /\ LET vo == marker_offset + Len(BUFFER_MARKER(tool)) + SKIP_TO_VERTEX_COUNT(tool)
           fo == vo + 2 + SKIP_TO_FACE_COUNT(tool)
           vb == Slice(file_data, vo, vo + 2)
           fb == Slice(file_data, fo, fo + 2)
       IN IF Len(vb) # 2 \/ Len(fb) # 2
          THEN \* struct.error in read_int16_be
               /\ Crash
               /\ UNCHANGED << offset, vertex_count, face_count, vertices >>
          ELSE /\ vertex_count' = UnpackBE16(vb)
               /\ face_count' = UnpackBE16(fb)
               /\ offset' = fo + 2 + SKIP_TO_FIRST_VERTEX(tool)
               /\ vertices' = 0
               /\ pc' = "model_vertices"
    /\ UNCHANGED << modelFrame, search_offset, marker_offset, bytes_read,
                    strip_indices, faces >>

\* one iteration of the vertex loop: five floats are read at offset
ModelVertex ==
    /\ pc = "model_vertices"
    /\ vertices < vertex_count
    /\ IF offset + 20 > Len(file_data)
       THEN \* struct.error in read_float_be
            /\ Crash
            /\ UNCHANGED << offset, vertices >>
       ELSE /\ vertices' = vertices + 1
            /\ offset' = offset + VERTEX_STRIDE(tool)
            /\ UNCHANGED pc
    /\ UNCHANGED << modelFrame, search_offset, marker_offset, vertex_count,
                    face_count, bytes_read, strip_indices, faces >>

\* the vertex loop is over: bmodel.py calls the strip reader, bmd6model.py
\* starts its face loop
ModelFacesStart ==
    /\ pc = "model_vertices"
    /\ vertices >= vertex_count
    /\ faces' = << >>
    /\ strip_indices' = << >>
    /\ bytes_read' = 0
    /\ pc' = IF tool = "bmodel" THEN "strip_loop" ELSE "face_loop"
    /\ UNCHANGED << modelFrame, search_offset, marker_offset, offset,
                    vertex_count, face_count, vertices >>

\* bmd6model.py: one iteration of the face loop, three indices per face
ModelFace ==
    /\ pc = "face_loop"
    /\ Len(faces) < face_count
    /\ IF offset + 6 > Len(file_data)
       THEN \* struct.error in read_int16_be
            /\ Crash
            /\ UNCHANGED << offset, faces >>
       ELSE /\ faces' = Append(faces,
                    [tri |-> << 256 * At(file_data, offset) + At(file_data, offset + 1),
                                256 * At(file_data, offset + 2) + At(file_data, offset + 3),
                                256 * At(file_data, offset + 4) + At(file_data, offset + 5) >>,
                     at |-> << offset, offset + 2, offset + 4 >>])
            /\ offset' = offset + 6
            /\ UNCHANGED pc
    /\ UNCHANGED << modelFrame, search_offset, marker_offset, vertex_count,
                    face_count, vertices, bytes_read, strip_indices >>

\* bmd6model.py: the face loop is over
ModelFacesEnd ==
    /\ pc = "face_loop"
    /\ Len(faces) >= face_count
    /\ pc' = "faces_done"
    /\ UNCHANGED << modelFrame, search_offset, marker_offset, offset,
                    vertex_count, face_count, vertices, bytes_read,
                    strip_indices, faces >>

\* extract_model returns; main applies the transforms (the normals index
\* the vertices by the face indices: IndexError for an index that is no
\* vertex), writes the OBJ file and goes round its loop
ModelWrite ==
    /\ pc = "faces_done"
    /\ search_offset # NoInt
    /\ IF \E k \in DOMAIN faces : \E i \in 1..3 : faces[k].tri[i] >= vertices
       THEN /\ Crash
            /\ UNCHANGED << objs, total_extracted, part_number, search_offset >>
       ELSE /\ objs' = Append(objs, [part |-> part_number, marker |-> marker_offset,
                                     from |-> search_offset, nfaces |-> Len(faces)])
            /\ total_extracted' = total_extracted + 1
            /\ part_number' = part_number + 1
            /\ search_offset' = NextSearch(offset, marker_offset)
            /\ pc' = "model_call"
    /\ UNCHANGED << imageVars, resVars, tool, file_data, marker_offset, offset,
                    vertex_count, face_count, vertices, bytes_read,
                    strip_indices, faces >>

\* the bytes of the 16-bit words ws, big-endian
RECURSIVE Words(_)
Words(ws) ==
    IF ws = << >> THEN << >> ELSE PackBE16(Head(ws)) \o Words(Tail(ws))

\* n bytes of value v
Fill(n, v) == [i \in 1..n |-> v]

\* one model part as it lies in a file: marker, skipped bytes, vertex
\* count, skipped bytes, face count, skipped bytes, vc vertex entries, and
\* the face words ws; fc is the face count written, which need not agree
\* with ws
PartBytes(t, vc, fc, ws) ==
    BUFFER_MARKER(t) \o Fill(SKIP_TO_VERTEX_COUNT(t), 0) \o PackBE16(vc)
    \o Fill(SKIP_TO_FACE_COUNT(t), 0) \o PackBE16(fc)
    \o Fill(SKIP_TO_FIRST_VERTEX(t), 0) \o Fill(vc * VERTEX_STRIDE(t), 63)
    \o Words(ws)

\* the parts tried for converter t: no vertices and no faces; faces that
\* index the vertices; a face count smaller than the face words present,
\* which leaves two terminators (for bmodel.py: a marker) behind the part;
\* a face index that is no vertex; a face count larger than the data
PartKinds(t) ==
    IF t = "bmodel"
    THEN { PartBytes(t, 0, 0, << >>),
           PartBytes(t, 2, 3, << 0, 1, 0 >>),
           PartBytes(t, 2, 5, << 0, 1, STRIP_END, 1, 0 >>),
           PartBytes(t, 1, 1, << STRIP_END, STRIP_END, STRIP_END >>),
           PartBytes(t, 1, 3, << 0, 0, 7 >>),
           PartBytes(t, 1, 4, << 0, 0 >>) }
    ELSE { PartBytes(t, 0, 0, << >>),
           PartBytes(t, 2, 1, << 0, 1, 0 >>),
           PartBytes(t, 1, 2, << 0, 0, 0, 0, 0, 0 >>),
           PartBytes(t, 1, 0, << 0, 0, 0, 1, 0, 0 >>),
           PartBytes(t, 1, 1, << 0, 0, 7 >>),
           PartBytes(t, 1, 2, << 0, 0, 0 >>) }

\* every file body of n parts
RECURSIVE Bodies(_, _)
Bodies(t, n) ==
    IF n = 0 THEN { << >> }
    ELSE { part \o rest : part \in PartKinds(t), rest \in Bodies(t, n - 1) }

\* the model files tried: a header (which holds a marker, at offset 8),
\* up to MaxParts parts, and the end of the file cut off by 0, 1 or 20 bytes
ModelFiles(t) ==
    { LET whole == Fill(8, 0) \o BUFFER_MARKER(t)
                   \o Fill(HEADER_SIZE(t) - 8 - Len(BUFFER_MARKER(t)), 0) \o body
      IN SubSeq(whole, 1, Len(whole) - (IF cut <= Len(body) THEN cut ELSE 0)) :
        body \in UNION { Bodies(t, n) : n \in 0..MaxParts }, cut \in { 0, 1, 20 } }

\* main has read the file and is about to enter its loop
InitModel ==
    \E t \in { "bmodel", "bmd6model" } :
        \E d \in ModelFiles(t) :
            /\ NoImage
            /\ NoMain
            /\ NoResources
            /\ pc = "model_call"
            /\ tool = t
            /\ file_data = d
            /\ search_offset = HEADER_SIZE(t)
            /\ part_number = 1
            /\ total_extracted = 0
            /\ marker_offset = NoInt
            /\ offset = NoInt
            /\ vertex_count = NoInt
            /\ face_count = NoInt
            /\ vertices = NoInt
            /\ bytes_read = NoInt
            /\ strip_indices = << >>
            /\ faces = << >>
            /\ objs = << >>

NextModel ==
    \/ ModelSearch
    \/ ModelCounts
    \/ ModelVertex
    \/ ModelFacesStart
    \/ StripStep
    \/ StripRest
    \/ ModelFace
    \/ ModelFacesEnd
    \/ ModelWrite

SpecModel == InitModel /\ [][NextModel]_vars

(***************************************************************************)
(* Properties.                                                             *)
(***************************************************************************)
\* the 4 bytes of pixel (x, y) of a buffer of row length w
Pixel(buf, x, y, w) == SubSeq(buf, (y * w + x) * 4 + 1, (y * w + x) * 4 + 4)

\* blocks in the grid of the image being converted
NumBlocks == BlockCount(width) * BlockCount(height)

\* the payload holds every block of the grid
FullPayload == Len(image_data) >= NumBlocks * Stride(fmt)

\* a decoder has run to its end
Decoded == decoder # "none" /\ pc \in { "write_png", "returned" } /\ rgba # NoBytes

\* C1: for width >= 1 and height >= 1 and every payload, short or over-long,
\* the buffer of decompress_dxt1 and of decompress_dxt5 holds exactly
\* width*height*4 bytes when it is allocated, after every block's pixel
\* writes, and when it is returned.
C1_BufferLength ==
    (decoder # "none" /\ width >= 1 /\ height >= 1) =>
        /\ pixels # NoBytes => Len(pixels) = width * height * 4
        /\ rgba # NoBytes => Len(rgba) = width * height * 4

C1_Witness ==
    /\ pc = "returned"
    /\ decoder = "dxt1"
    /\ width = 5
    /\ height = 3
    /\ Len(image_data) > NumBlocks * BC1_STRIDE
    /\ Len(writes) = 15
    /\ Len(rgba) = 60

\* C2: when only the final block's byte range exceeds the payload length, the
\* decoder raises no error, leaves that block's in-bounds pixels (0,0,0,0) and
\* gives every other pixel the value the untruncated payload decodes to.
C2_TruncatedFinalBlock ==
    (/\ decoder # "none"
     /\ NumBlocks >= 1
     /\ Len(image_data) >= (NumBlocks - 1) * Stride(fmt)
     /\ Len(image_data) < NumBlocks * Stride(fmt)) =>
        /\ result # "False"
        /\ pc = "returned" => result = "True"
        /\ Decoded =>
            \A seed \in 1..NumSeeds :
                image_data = Payload(seed, Len(image_data)) =>
                    LET ref == Decompress(fmt, Payload(seed, NumBlocks * Stride(fmt)),
                                          width, height)
                    IN \A x \in 0..(width - 1), y \in 0..(height - 1) :
                          Pixel(rgba, x, y, width) =
                              IF x \div 4 = BlockCount(width) - 1
                                 /\ y \div 4 = BlockCount(height) - 1
                              THEN << 0, 0, 0, 0 >>
                              ELSE Pixel(ref, x, y, width)

C2_Witness ==
    /\ pc = "returned"
    /\ result = "True"
    /\ decoder = "dxt1"
    /\ width = 5
    /\ height = 5
    /\ Len(image_data) = 3 * BC1_STRIDE + 3
    /\ Pixel(rgba, 4, 4, 5) = << 0, 0, 0, 0 >>
    /\ Pixel(rgba, 0, 0, 5) # << 0, 0, 0, 0 >>
    /\ Pixel(rgba, 4, 0, 5) # << 0, 0, 0, 0 >>
    /\ Pixel(rgba, 0, 4, 5) # << 0, 0, 0, 0 >>

\* the 4 x 4 patch of block k of the payload, found by decoding that block
\* alone as a 4 x 4 image
Patch(f, data, k) ==
    Decompress(f, Slice(data, k * Stride(f), (k + 1) * Stride(f)), 4, 4)

\* the pixel that cell (px, py) of block k of the payload decodes to
PatchPixel(f, data, k, px, py) == Pixel(Patch(f, data, k), px, py, 4)

\* C3: every pixel write is of a patch pixel (x, y) = (bx*4+px, by*4+py) with
\* x < width and y < height, at byte offset (y*width+x)*4, where the returned
\* buffer holds that patch pixel; no two writes touch the same bytes; with a
\* full-length payload each in-bounds pixel is written by exactly one
\* (block, cell) pair.
C3_WritesClippedAndDisjoint ==
    /\ \A i \in DOMAIN writes :
          LET r == writes[i]
          IN /\ r.px \in 0..3 /\ r.py \in 0..3
             /\ r.x = r.bx * 4 + r.px
             /\ r.y = r.by * 4 + r.py
             /\ r.x < width
             /\ r.y < height
             /\ r.off = (r.y * width + r.x) * 4
    /\ (decoder # "none" /\ pc = "write_png") =>
        /\ \A v \in DOMAIN visited :
              LET patch == Patch(fmt, image_data, v - 1)
              IN \A i \in DOMAIN writes :
                    LET r == writes[i]
                    IN r.by * BlockCount(width) + r.bx = v - 1 =>
                           Pixel(rgba, r.x, r.y, width) = Pixel(patch, r.px, r.py, 4)
        /\ \A i, j \in DOMAIN writes :
              i # j => \/ writes[i].off + 4 <= writes[j].off
                       \/ writes[j].off + 4 <= writes[i].off
        /\ FullPayload =>
              \A x \in 0..(width - 1), y \in 0..(height - 1) :
                  Cardinality({ i \in DOMAIN writes :
                                  writes[i].off = (y * width + x) * 4 }) = 1

C3_Witness ==
    /\ pc = "write_png"
    /\ decoder = "dxt5"
    /\ width = 5
    /\ height = 5
    /\ FullPayload
    /\ Len(writes) = 25
    /\ \E i \in DOMAIN writes : writes[i].bx = 1 /\ writes[i].by = 1

\* a 5 x 5 image has been decoded from a payload that holds its four blocks
FiveByFive ==
    decoder # "none" /\ pc = "write_png" /\ width = 5 /\ height = 5 /\ FullPayload

\* the 25 pixels of the 5 x 5 image are each written once and hold the pixel of
\* the patch cell that lies on them
FiveByFivePlaced ==
    /\ Len(writes) = 25
    /\ { writes[i].off : i \in DOMAIN writes } = { 4 * k : k \in 0..24 }
    /\ Len(rgba) = 100
    /\ \A x \in 0..4, y \in 0..4 :
          Pixel(rgba, x, y, 5) =
              PatchPixel(fmt, image_data, (y \div 4) * 2 + (x \div 4), x % 4, y % 4)

\* C4 as stated: in a 5 x 5 image the patch pixels at x = 4 or y = 4 are
\* discarded, and the buffer holds 25 correctly placed pixels.
C4_AsStated ==
    FiveByFive =>
        /\ \A i \in DOMAIN writes : writes[i].x # 4 /\ writes[i].y # 4
        /\ FiveByFivePlaced

\* C4, amended: in a 5 x 5 image the patch pixels at x >= 5 or y >= 5 are
\* discarded (of block column 1 only patch column 0 is written, of block row 1
\* only patch row 0), the pixels at x = 4 and at y = 4 are written, and the
\* buffer holds exactly 25 correctly placed pixels, each written once.
C4_FiveByFive ==
    FiveByFive =>
        /\ \A i \in DOMAIN writes :
              /\ writes[i].x <= 4 /\ writes[i].y <= 4
              /\ writes[i].bx = 1 => writes[i].px = 0
              /\ writes[i].by = 1 => writes[i].py = 0
        /\ \A x \in 0..4, y \in 0..4 :
              (x = 4 \/ y = 4) => \E i \in DOMAIN writes :
                                      writes[i].x = x /\ writes[i].y = y
        /\ FiveByFivePlaced

C4_Witness ==
    /\ FiveByFive
    /\ decoder = "dxt1"
    /\ Len(writes) = 25
    /\ Pixel(rgba, 4, 4, 5) # << 0, 0, 0, 0 >>
    /\ Pixel(rgba, 4, 4, 5) # Pixel(rgba, 3, 3, 5)

\* C5: a format code that is neither BC1 nor BC3 makes convert_bimage return
\* False: no decoder is invoked, no buffer is allocated or returned, and no
\* output file is written.
C5_UnsupportedFormat ==
    (fmt # NoInt /\ fmt \notin { FMT_BC1, FMT_BC3 }) =>
        /\ pc \in { "dispatch", "returned" }
        /\ pc = "returned" => result = "False"
        /\ decoder = "none"
        /\ pixels = NoBytes
        /\ rgba = NoBytes
        /\ outfile = NoBytes
        /\ visited = << >>
        /\ writes = << >>

C5_Witness ==
    /\ pc = "returned"
    /\ result = "False"
    /\ fmt = 12
    /\ width = 5
    /\ height = 5
    /\ Len(image_data) > 0

\* C6: an image of width 0 or height 0 is refused: no buffer is returned and no
\* output file is produced.
C6_ZeroDimensionRefused ==
    (pc = "returned" /\ fmt \in { FMT_BC1, FMT_BC3 }
        /\ (width = 0 \/ height = 0)) =>
        /\ result = "False"
        /\ rgba = NoBytes
        /\ outfile = NoBytes

\* C7: write_png, given a buffer whose length is not width*height*4, emits no
\* output bytes.
C7_SizeMismatchRefused ==
    (pc = "returned" /\ rgba # NoBytes /\ Len(rgba) # width * height * 4) =>
        outfile = NoBytes

\* the block decoded last was a BC1 block, and its pixels are in the buffer
Bc1BlockDecoded == decoder = "dxt1" /\ colors # NoList /\ pc = "dxt1_loop"

\* the writes of the block decoded last
LastWrites ==
    { i \in DOMAIN writes :
        /\ writes[i].by = visited[Len(visited)].by
        /\ writes[i].bx = visited[Len(visited)].bx }

\* the 2-bit index of patch cell (px, py): row py is byte py of the index field
CellIndex(px, py) == (indices[py + 1] \div Pow2(2 * px)) % 4

\* C8: in a BC1 block with c0 <= c1 (packed values), Palette[2] is the
\* truncated per-channel average of Palette[0] and Palette[1] with alpha 255,
\* Palette[3] is (0,0,0,0), and a pixel of index 3 is written as (0,0,0,0).
C8_PunchThrough ==
    (Bc1BlockDecoded /\ c0 <= c1) =>
        /\ colors[3] = << (colors[1][1] + colors[2][1]) \div 2,
                          (colors[1][2] + colors[2][2]) \div 2,
                          (colors[1][3] + colors[2][3]) \div 2, 255 >>
        /\ colors[4] = << 0, 0, 0, 0 >>
        /\ \A i \in LastWrites :
              CellIndex(writes[i].px, writes[i].py) = 3 =>
                  Pixel(pixels, writes[i].x, writes[i].y, width) = << 0, 0, 0, 0 >>

C8_Witness ==
    /\ Bc1BlockDecoded
    /\ c0 = c1
    /\ c0 = 65535
    /\ indices = << 255, 255, 255, 255 >>
    /\ colors[3] = << 255, 255, 255, 255 >>
    /\ Pixel(pixels, 3, 3, 4) = << 0, 0, 0, 0 >>

\* C9: in a BC1 block with c0 > c1 (packed values), Palette[2] is per channel
\* (2*c0_ch + c1_ch)/3 and Palette[3] is (c0_ch + 2*c1_ch)/3, truncated, all
\* four entries have alpha 255 and so have all the pixels written; a BC1 pixel
\* is written with alpha 0 only when c0 <= c1 and its index is 3.
C9_FourColour ==
    Bc1BlockDecoded =>
        /\ c0 > c1 =>
            /\ colors[3] = << (2 * colors[1][1] + colors[2][1]) \div 3,
                              (2 * colors[1][2] + colors[2][2]) \div 3,
                              (2 * colors[1][3] + colors[2][3]) \div 3, 255 >>
            /\ colors[4] = << (colors[1][1] + 2 * colors[2][1]) \div 3,
                              (colors[1][2] + 2 * colors[2][2]) \div 3,
                              (colors[1][3] + 2 * colors[2][3]) \div 3, 255 >>
            /\ \A k \in 1..4 : colors[k][4] = 255
            /\ Cardinality(LastWrites) = 16
            /\ \A i \in LastWrites :
                  Pixel(pixels, writes[i].x, writes[i].y, width)[4] = 255
        /\ \A i \in LastWrites :
              Pixel(pixels, writes[i].x, writes[i].y, width)[4] = 0 =>
                  c0 <= c1 /\ CellIndex(writes[i].px, writes[i].py) = 3

C9_Witness ==
    /\ Bc1BlockDecoded
    /\ c0 = 65535
    /\ c1 = 2113
    /\ indices = << 27, 27, 27, 27 >>
    /\ colors[3] # colors[4]
    /\ Pixel(pixels, 0, 0, 4) = colors[4]
    /\ Pixel(pixels, 1, 0, 4) = colors[3]

\* C10: a BC1 block with c0 = c1 and all 16 indices 0 decodes to 16 identical
\* opaque pixels (r5*255/31, g6*255/63, b5*255/31, 255) of the endpoint.
C10_SolidBlock ==
    (Bc1BlockDecoded /\ c0 = c1 /\ indices = << 0, 0, 0, 0 >>) =>
        /\ Cardinality(LastWrites) = 16
        /\ \A x \in 0..3, y \in 0..3 :
              Pixel(pixels, x, y, width) =
                  << (((c0 \div 2048) % 32) * 255) \div 31,
                     (((c0 \div 32) % 64) * 255) \div 63,
                     ((c0 % 32) * 255) \div 31,
                     255 >>

C10_Witness ==
    /\ Bc1BlockDecoded
    /\ c0 = c1
    /\ c0 = 4 * 2048 + 33 * 32 + 17
    /\ indices = << 0, 0, 0, 0 >>
    /\ Pixel(pixels, 2, 3, 4) = << 32, 133, 139, 255 >>

\* the block decoded last was a BC3 block, and its pixels are in the buffer
Bc3BlockDecoded == decoder = "dxt5" /\ alphas # NoList /\ pc = "dxt5_loop"

\* byte k (from 0) of the block decoded last, as it stands in the payload
BlockByte(k) == At(image_data, visited[Len(visited)].off + k)

\* C11 as stated: for the alpha endpoints a0 = 255, a1 = 0 the ramp is
\* [255, 0, 219, 182, 146, 109, 73, 36].
C11_AsStated ==
    (Bc3BlockDecoded /\ BlockByte(0) = 255 /\ BlockByte(1) = 0) =>
        alphas = << 255, 0, 219, 182, 146, 109, 73, 36 >>

\* C11, amended: for the alpha endpoints a0 = 255, a1 = 0 the ramp that
\* decompress_dxt5 builds is [255, 0, 218, 182, 145, 109, 72, 36], the
\* truncated quotients of 6*255, 5*255, .., 1*255 by 7.
C11_Ramp255 ==
    (Bc3BlockDecoded /\ BlockByte(0) = 255 /\ BlockByte(1) = 0) =>
        alphas = << 255, 0, 218, 182, 145, 109, 72, 36 >>

C11_Witness ==
    /\ Bc3BlockDecoded
    /\ BlockByte(0) = 255
    /\ BlockByte(1) = 0
    /\ Len(alphas) = 8
    /\ \E i \in LastWrites : Pixel(pixels, writes[i].x, writes[i].y, width)[4] = 218

\* C12 as stated: when a0 > a1, ramp[0] = a0, ramp[1] = a1 and for i in 2..7
\* ramp[i] = ((7 - i) * a0 + i * a1) / 7, truncated.
C12_AsStated ==
    (Bc3BlockDecoded /\ BlockByte(0) > BlockByte(1)) =>
        /\ Len(alphas) = 8
        /\ alphas[1] = BlockByte(0)
        /\ alphas[2] = BlockByte(1)
        /\ \A i \in 2..7 :
              alphas[i + 1] = ((7 - i) * BlockByte(0) + i * BlockByte(1)) \div 7

\* C12, amended: when a0 > a1 the ramp has 8 entries, ramp[0] = a0,
\* ramp[1] = a1 and for i in 2..7 ramp[i] = ((8 - i) * a0 + (i - 1) * a1) / 7,
\* truncated: the weights of a0 run from 6/7 at ramp[2] down to 1/7 at ramp[7].
C12_SevenStepRamp ==
    (Bc3BlockDecoded /\ BlockByte(0) > BlockByte(1)) =>
        /\ Len(alphas) = 8
        /\ alphas[1] = BlockByte(0)
        /\ alphas[2] = BlockByte(1)
        /\ \A i \in 2..7 :
              alphas[i + 1] =
                  ((8 - i) * BlockByte(0) + (i - 1) * BlockByte(1)) \div 7

C12_Witness ==
    /\ Bc3BlockDecoded
    /\ BlockByte(0) = 200
    /\ BlockByte(1) = 36
    /\ alphas[3] = 176
    /\ alphas[8] = 59

\* C13 as stated: when a0 <= a1, ramp[0] = a0, ramp[1] = a1, for i in 2..5
\* ramp[i] = ((5 - i) * a0 + i * a1) / 5, truncated, ramp[6] = 0 and
\* ramp[7] = 255.
C13_AsStated ==
    (Bc3BlockDecoded /\ BlockByte(0) <= BlockByte(1)) =>
        /\ Len(alphas) = 8
        /\ alphas[1] = BlockByte(0)
        /\ alphas[2] = BlockByte(1)
        /\ \A i \in 2..5 :
              alphas[i + 1] = ((5 - i) * BlockByte(0) + i * BlockByte(1)) \div 5
        /\ alphas[7] = 0
        /\ alphas[8] = 255

\* C13, amended: when a0 <= a1 the ramp has 8 entries, ramp[0] = a0,
\* ramp[1] = a1, for i in 2..5 ramp[i] = ((6 - i) * a0 + (i - 1) * a1) / 5,
\* truncated, ramp[6] = 0 and ramp[7] = 255.
C13_FiveStepRamp ==
    (Bc3BlockDecoded /\ BlockByte(0) <= BlockByte(1)) =>
        /\ Len(alphas) = 8
        /\ alphas[1] = BlockByte(0)
        /\ alphas[2] = BlockByte(1)
        /\ \A i \in 2..5 :
              alphas[i + 1] =
                  ((6 - i) * BlockByte(0) + (i - 1) * BlockByte(1)) \div 5
        /\ alphas[7] = 0
        /\ alphas[8] = 255

C13_Witness ==
    /\ Bc3BlockDecoded
    /\ BlockByte(0) = 36
    /\ BlockByte(1) = 200
    /\ alphas[3] = 68
    /\ alphas[6] = 167
    /\ alphas[7] = 0

\* a packed colour endpoint of the block decoded last, read at byte k
BlockEndpoint(k) == BlockByte(k) + 256 * BlockByte(k + 1)

\* the (r, g, b) a packed endpoint stands for
EndpointRgb(e) == << ((e \div 2048) * 255) \div 31,
                    (((e \div 32) % 64) * 255) \div 63,
                    ((e % 32) * 255) \div 31 >>

\* the four-colour palette of two endpoint colours p and q
Thirds(p, q) ==
    << p, q,
       [j \in 1..3 |-> (2 * p[j] + q[j]) \div 3],
       [j \in 1..3 |-> (p[j] + 2 * q[j]) \div 3] >>

\* the buffer decompress_dxt5 builds for the image when only the block
\* decoded last is given, bytes lo..hi-1 of it replaced by the byte fill
DecodedWith(lo, hi, fill) ==
    LET off == visited[Len(visited)].off
        blk == Slice(image_data, off, off + BC3_STRIDE)
        new == [k \in 1..BC3_STRIDE |-> IF k > lo /\ k <= hi THEN fill ELSE blk[k]]
    IN Dxt5Block(Zeros(width * height * 4), new, width, height, 0, 0).buf

\* C14: a BC3 block's palette is the four-colour one (two endpoints and the
\* two thirds) whatever the order of c0 and c1; every pixel of the block is
\* (palette[colour index] rgb, ramp[alpha index]); its alpha byte does not
\* change when the 8 bytes of the colour sub-block are replaced, and its rgb
\* bytes do not change when the 8 bytes of the alpha sub-block are replaced.
C14_ColourAndAlphaIndependent ==
    Bc3BlockDecoded =>
        /\ colors = Thirds(EndpointRgb(BlockEndpoint(8)), EndpointRgb(BlockEndpoint(10)))
        /\ \A i \in LastWrites :
              Pixel(pixels, writes[i].x, writes[i].y, width) =
                  colors[writes[i].ci + 1] \o << alphas[writes[i].ai + 1] >>
        /\ \A fill \in { 90 } :
              LET alphaOnly == DecodedWith(8, 16, fill)
                  colourOnly == DecodedWith(0, 8, fill)
              IN \A i \in LastWrites :
                    LET x == writes[i].px
                        y == writes[i].py
                        p == Pixel(pixels, writes[i].x, writes[i].y, width)
                    IN /\ p[4] = Pixel(alphaOnly, x, y, width)[4]
                       /\ SubSeq(p, 1, 3) = SubSeq(Pixel(colourOnly, x, y, width), 1, 3)

\* a BC3 block with c0 < c1 whose pixels use palette entries 2 and 3, which
\* are the two thirds and not the average and transparent black
C14_Witness ==
    /\ Bc3BlockDecoded
    /\ BlockEndpoint(8) < BlockEndpoint(10)
    /\ colors[1] # colors[2]
    /\ colors[4] # << 0, 0, 0 >>
    /\ \E i \in LastWrites : writes[i].ci = 3 /\ writes[i].ai = 5
    /\ \E i \in LastWrites : writes[i].ci = 2

\* the big-endian 32-bit number at bytes pos..pos+3 (from 0) of b
ReadBE32(b, pos) ==
    ((At(b, pos) * 256 + At(b, pos + 1)) * 256 + At(b, pos + 2)) * 256 + At(b, pos + 3)

\* what a reader finds where no well-formed chunk starts
BadChunk == [tag |-> << >>, data |-> << >>, crc |-> << >>]

\* the chunks a PNG reader finds in b from byte pos (from 0) on: each is a
\* length, a 4-byte tag, that many data bytes and a 4-byte checksum
RECURSIVE ReadChunks(_, _)
ReadChunks(b, pos) ==
    IF pos >= Len(b) THEN << >>
    ELSE IF pos + 12 > Len(b) THEN << BadChunk >>
    ELSE LET n == ReadBE32(b, pos)
         IN IF pos + 12 + n > Len(b) THEN << BadChunk >>
            ELSE << [tag |-> SubSeq(b, pos + 5, pos + 8),
                     data |-> SubSeq(b, pos + 9, pos + 8 + n),
                     crc |-> SubSeq(b, pos + 9 + n, pos + 12 + n)] >>
                 \o ReadChunks(b, pos + 12 + n)

\* zlib.decompress of a stream whose DEFLATE data is one final stored block:
\* the header is checked (method 8, window 32K, check bits), then the block
\* header, the length and its complement, and the Adler-32 of the bytes;
\* NoBytes for any other stream
ZlibDecompress(z) ==
    IF Len(z) < 11 THEN NoBytes
    ELSE LET n == z[4] + 256 * z[5]
         IN IF /\ z[1] = 120
               /\ (z[1] * 256 + z[2]) % 31 = 0
               /\ z[3] = 1
               /\ z[6] = 255 - z[4]
               /\ z[7] = 255 - z[5]
               /\ Len(z) = 11 + n
               /\ SubSeq(z, 8 + n, 11 + n) = Adler32(SubSeq(z, 8, 7 + n))
            THEN SubSeq(z, 8, 7 + n)
            ELSE NoBytes

\* the pixel bytes of h scanlines of w RGBA pixels, each led by filter type 0;
\* NoBytes when raw is not h such scanlines
RECURSIVE Unfilter(_, _, _, _)
Unfilter(raw, w, h, y) ==
    IF y >= h THEN (IF Len(raw) = h * (1 + w * 4) THEN << >> ELSE NoBytes)
    ELSE LET lo == y * (1 + w * 4)
             rest == Unfilter(raw, w, h, y + 1)
         IN IF lo + 1 + w * 4 > Len(raw) \/ raw[lo + 1] # 0 \/ rest = NoBytes
            THEN NoBytes
            ELSE SubSeq(raw, lo + 2, lo + 1 + w * 4) \o rest

\* the data of the chunks of the output file that carry the tag
ChunkData(tag) ==
    LET ch == ReadChunks(outfile, 8)
    IN [k \in 1..Cardinality({ j \in DOMAIN ch : ch[j].tag = tag }) |->
          ch[CHOOSE j \in DOMAIN ch :
                /\ ch[j].tag = tag
                /\ Cardinality({ i \in 1..j : ch[i].tag = tag }) = k].data]

\* C15: when write_png is given a buffer of exactly width * height * 4
\* bytes, the zlib stream in the IDAT chunk decompresses to
\* height * (1 + width * 4) bytes, every scanline starts with the filter
\* byte 0, and the scanlines without their filter bytes are the buffer.
C15_PixelPayloadLossless ==
    (pc = "returned" /\ outfile # NoBytes /\ Len(rgba) = width * height * 4) =>
        /\ Len(ChunkData(TAG_IDAT)) = 1
        /\ LET raw == ZlibDecompress(ChunkData(TAG_IDAT)[1])
           IN /\ raw # NoBytes
              /\ Len(raw) = height * (1 + width * 4)
              /\ Unfilter(raw, width, height, 0) = rgba

C15_Witness ==
    /\ pc = "returned"
    /\ width = 3
    /\ height = 2
    /\ Len(rgba) = 24
    /\ \E i \in 1..24 : rgba[i] # 0
    /\ Len(ZlibDecompress(ChunkData(TAG_IDAT)[1])) = 26

\* C16: every file write_png produces is the 8-byte signature followed by
\* exactly three chunks: IHDR with the 13 data bytes big-endian width,
\* big-endian height, 8, 6, 0, 0, 0; IDAT; IEND with no data.  Each chunk is
\* a 4-byte big-endian length, the tag, the data and the 4-byte big-endian
\* CRC-32 of tag and data.
C16_ThreeFramedChunks ==
    (pc = "returned" /\ outfile # NoBytes) =>
        LET ch == ReadChunks(outfile, 8)
        IN /\ SubSeq(outfile, 1, 8) = << 137, 80, 78, 71, 13, 10, 26, 10 >>
           /\ Len(ch) = 3
           /\ ch[1].tag = << 73, 72, 68, 82 >>
           /\ ch[2].tag = << 73, 68, 65, 84 >>
           /\ ch[3].tag = << 73, 69, 78, 68 >>
           /\ Len(ch[1].data) = 13
           /\ ch[1].data = [j \in 1..4 |-> (width \div Pow2(8 * (4 - j))) % 256]
                            \o [j \in 1..4 |-> (height \div Pow2(8 * (4 - j))) % 256]
                            \o << 8, 6, 0, 0, 0 >>
           /\ ch[3].data = << >>
           /\ \A k \in 1..3 : ch[k].crc = Crc32(ch[k].tag \o ch[k].data)
           /\ ch[3].crc = << 174, 66, 96, 130 >>

C16_Witness ==
    /\ pc = "returned"
    /\ width = 2
    /\ height = 3
    /\ Len(rgba) = 24
    /\ Len(ReadChunks(outfile, 8)) = 3
    /\ Len(outfile) = 8 + 25 + (12 + 11 + 27) + 12

\* the .png file convert_bimage leaves when it is called on the argument a
\* and on nothing else (NoBytes: none)
ConvertAlone(a) ==
    IF a = NotAFile \/ a = Unreadable \/ Len(a) < OFF_FORMAT + 1 THEN NoBytes
    ELSE LET w == At(a, OFF_WIDTH) * 256 + At(a, OFF_WIDTH + 1)
             h == At(a, OFF_HEIGHT) * 256 + At(a, OFF_HEIGHT + 1)
             f == At(a, OFF_FORMAT)
             buf == Decompress(f, Slice(a, OFF_DATA, Len(a)), w, h)
         IN IF f \notin { FMT_BC1, FMT_BC3 } \/ buf = NoBytes THEN NoBytes
            ELSE PngData(w, h, buf)

\* the positions, among the first n arguments, of those that are files
FileArgs(n) ==
    SelectSeq([k \in 1..n |-> k - 1], LAMBDA k : files[k + 1] # NotAFile)

\* the arguments the loop of main is done with or is converting
Taken == IF pc \in { "main", "main_loop", "exit" } THEN file_idx ELSE file_idx + 1

CeilQuarter(n) == (n \div 4) + (IF n % 4 = 0 THEN 0 ELSE 1)

\* the k-th block visited (k from 1) is the k-th block of the grid in raster
\* order, and its offset is (by * ceil(width / 4) + bx) * stride
RasterOrder ==
    \A k \in DOMAIN visited :
        /\ visited[k].by = (k - 1) \div CeilQuarter(width)
        /\ visited[k].bx = (k - 1) % CeilQuarter(width)
        /\ visited[k].by < CeilQuarter(height)
        /\ visited[k].off =
              (visited[k].by * CeilQuarter(width) + visited[k].bx)
                  * (IF decoder = "dxt5" THEN 16 ELSE 8)

\* a decoder is in its loops
InLoops == pc \in { "dxt1_loop", "dxt5_loop" }

\* an upper bound of the loop steps a decoder in its loops still has to take:
\* one per block not yet visited and one per block row not yet left
StepsLeft ==
    (CeilQuarter(height) - by) * (CeilQuarter(width) + 1) - bx

\* C18: every call of a decoder comes to its end, for every width, height
\* and payload: each step of its loops lowers the number StepsLeft, which is
\* never negative, and the loops are left only by the return of the buffer,
\* with StepsLeft = 0.  On the way the blocks are visited in raster order,
\* block (by, bx) at payload offset (by * ceil(width / 4) + bx) * stride, and
\* when the decoder returns it has visited each of the
\* ceil(width / 4) * ceil(height / 4) blocks exactly once.
C18_DecodeTerminates ==
    /\ [](RasterOrder
          /\ (InLoops => StepsLeft >= 0)
          /\ (Decoded => Len(visited) = CeilQuarter(width) * CeilQuarter(height)))
    /\ [][InLoops =>
            \/ InLoops' /\ StepsLeft' < StepsLeft
            \/ pc' = "write_png" /\ rgba' = pixels /\ StepsLeft = 0]_vars

\* a BC3 decoder has returned from a 2 x 2 grid of blocks whose payload held
\* three of the four
C18_Witness ==
    /\ Decoded
    /\ decoder = "dxt5"
    /\ width = 5
    /\ height = 5
    /\ Len(visited) = 4
    /\ visited[3].decoded
    /\ ~visited[4].decoded
    /\ visited[4].off = 48
    /\ visited[3].by = 1
    /\ visited[3].bx = 0

\* a block was decoded last, by either decoder
BlockDecoded == InLoops /\ colors # NoList

\* the packed colour endpoints of the block decoded last: bytes 0..3 of a BC1
\* block, bytes 8..11 of a BC3 block
ColourEndpoint(n) == BlockEndpoint((IF decoder = "dxt5" THEN 8 ELSE 0) + 2 * n)

\* C19: the palette entries 0 and 1 of a block are its two packed endpoints
\* expanded by r8 = r5 * 255 / 31, g8 = g6 * 255 / 63, b8 = b5 * 255 / 31,
\* truncated; a channel of 0 expands to 0, a 5-bit 31 and a 6-bit 63 expand
\* to 255; every channel of every palette entry and every entry of the
\* alpha ramp lies in 0..255.
C19_ChannelExpansion ==
    BlockDecoded =>
        /\ \A n \in { 0, 1 } :
              LET e == ColourEndpoint(n)
                  r5 == (e \div 2048) % 32
                  g6 == (e \div 32) % 64
                  b5 == e % 32
                  p == colors[n + 1]
              IN /\ p[1] = (r5 * 255) \div 31
                 /\ p[2] = (g6 * 255) \div 63
                 /\ p[3] = (b5 * 255) \div 31
                 /\ r5 = 0 => p[1] = 0
                 /\ g6 = 0 => p[2] = 0
                 /\ b5 = 0 => p[3] = 0
                 /\ r5 = 31 => p[1] = 255
                 /\ g6 = 63 => p[2] = 255
                 /\ b5 = 31 => p[3] = 255
        /\ Len(colors) = 4
        /\ \A k \in 1..4 : \A j \in DOMAIN colors[k] : colors[k][j] \in 0..255
        /\ \A k \in DOMAIN alphas : alphas[k] \in 0..255
        /\ \A i \in DOMAIN pixels : pixels[i] \in 0..255

\* a BC3 block whose endpoint 0 has g6 = 33, where the scaled division gives
\* 133 and bit replication of the 6 bits would give 134
C19_Witness ==
    /\ BlockDecoded
    /\ decoder = "dxt5"
    /\ (ColourEndpoint(0) \div 32) % 64 = 33
    /\ colors[1][2] = 133
    /\ Len(alphas) = 8

\* the n <= 8 bits at bit offset s of the little-endian field that starts at
\* byte base of the block decoded last and is len bytes long: they lie in the
\* 16 bits of the byte that holds bit s and the byte after it
FieldBits(base, len, s, n) ==
    LET j == s \div 8
        lo == BlockByte(base + j)
        hi == IF j + 1 < len THEN BlockByte(base + j + 1) ELSE 0
    IN ((lo + 256 * hi) \div Pow2(s % 8)) % Pow2(n)

\* C20: for the texel at row r, column c of a BC3 block the colour index is
\* the 2 bits at bit offset (r * 4 + c) * 2 of the little-endian 32-bit field
\* at bytes 12..15, and the alpha index is the 3 bits at bit offset
\* (r * 4 + c) * 3 of the little-endian 48-bit field at bytes 2..7, after the
\* two alpha endpoints; the colour index is in 0..3, the alpha index in
\* 0..7, and the pixel written is the palette entry and the ramp entry at
\* these indices.
C20_IndexExtraction ==
    Bc3BlockDecoded =>
        \A i \in LastWrites :
            LET k == writes[i].py * 4 + writes[i].px
                ci == FieldBits(12, 4, k * 2, 2)
                ai == FieldBits(2, 6, k * 3, 3)
            IN /\ writes[i].ci = ci
               /\ writes[i].ai = ai
               /\ ci \in 0..3
               /\ ai \in 0..7
               /\ ci + 1 \in DOMAIN colors
               /\ ai + 1 \in DOMAIN alphas
               /\ Pixel(pixels, writes[i].x, writes[i].y, width) =
                      colors[ci + 1] \o << alphas[ai + 1] >>

\* a block whose texel (1, 1) has the alpha index 5, bits 15..17 of the
\* alpha field, which lie in two bytes, and texel (3, 3) the alpha index 7
C20_Witness ==
    /\ Bc3BlockDecoded
    /\ BlockByte(3) = 198
    /\ BlockByte(4) = 250
    /\ \E i \in LastWrites :
          /\ writes[i].py = 1
          /\ writes[i].px = 1
          /\ writes[i].ai = 5
          /\ writes[i].ci = 1
    /\ \E i \in LastWrites :
          /\ writes[i].py = 3
          /\ writes[i].px = 3
          /\ writes[i].ai = 7
          /\ writes[i].ci = 3

\* the 16-bit word at offset o of the model file
WordAt(o) == 256 * At(file_data, o) + At(file_data, o + 1)

\* the triangles of a strip of indices r: one per index from the third on,
\* the odd ones with their last two corners exchanged
StripFaces(r) ==
    [i \in 1..(IF Len(r) >= 3 THEN Len(r) - 2 ELSE 0) |->
        IF i % 2 = 1 THEN << r[i], r[i + 1], r[i + 2] >>
        ELSE << r[i], r[i + 2], r[i + 1] >>]

\* the triangles of the face words from word p on, when every terminator
\* ends the strip r gathered before it
RECURSIVE SplitFaces(_, _)
SplitFaces(p, r) ==
    IF p >= face_count THEN StripFaces(r)
    ELSE IF WordAt(2 * p) = STRIP_END
         THEN StripFaces(r) \o SplitFaces(p + 1, << >>)
         ELSE SplitFaces(p + 1, Append(r, WordAt(2 * p)))

\* C21: every 0xFFFF word ends the current strip, also a strip of fewer
\* than 3 indices: no triangle has corners read from both sides of a
\* terminator, and when extract_triangle_strip_faces returns its triangles
\* are those of the terminator-free runs of the face words, n - 2 triangles
\* with alternating winding for a run of n >= 3 indices.
C21_TerminatorEndsStrip ==
    /\ \A k \in DOMAIN faces :
          \A i \in 1..3, j \in 1..3 :
              \A o \in faces[k].at[i]..faces[k].at[j] :
                  o % 2 = 0 => WordAt(o) # STRIP_END
    /\ pc = "faces_done" =>
          [k \in DOMAIN faces |-> faces[k].tri] = SplitFaces(0, << >>)

\* C22: the blocks decoded are exactly the first
\* min(ceil(width / 4) * ceil(height / 4), floor(L / stride)) blocks in raster
\* order, L the payload length; once a block is skipped for lack of data
\* every later block is skipped; and the buffer returned is the one the
\* payload cut after the last grid block decodes to, so that the bytes
\* behind it have no influence.
C22_DecodedPrefix ==
    decoder # "none" =>
        LET stride == IF decoder = "dxt5" THEN 16 ELSE 8
            grid == CeilQuarter(width) * CeilQuarter(height)
            whole == Len(image_data) \div stride
            first == IF grid < whole THEN grid ELSE whole
        IN /\ \A k \in DOMAIN visited : visited[k].decoded <=> k <= first
           /\ \A j \in DOMAIN visited, k \in DOMAIN visited :
                 (j < k /\ ~visited[j].decoded) => ~visited[k].decoded
           /\ Decoded =>
                 /\ Len(visited) = grid
                 /\ Cardinality({ k \in DOMAIN visited : visited[k].decoded }) = first
                 /\ rgba = Decompress(fmt, Slice(image_data, 0, grid * stride),
                                      width, height)
                 /\ rgba = Decompress(fmt, Slice(image_data, 0, first * stride),
                                      width, height)

\* a 5 x 5 BC1 image whose payload holds two blocks and three bytes of the
\* third: two of the four blocks are decoded
C22_Witness ==
    /\ Decoded
    /\ decoder = "dxt1"
    /\ width = 5
    /\ height = 5
    /\ Len(image_data) = 19
    /\ visited[2].decoded
    /\ ~visited[3].decoded
    /\ ~visited[4].decoded
    /\ \E i \in DOMAIN rgba : rgba[i] # 0

\* the searches main has made found the markers of the OBJ files written:
\* the k-th file is part k, its marker is the first one at or behind the
\* offset its search started from, the first search starts behind the
\* header and every later one behind the marker found before it
PartsInOrder ==
    \A k \in DOMAIN objs :
        /\ objs[k].part = k
        /\ objs[k].marker # 0 - 1
        /\ objs[k].marker = Find(file_data, BUFFER_MARKER(tool), objs[k].from)
        /\ (k = 1 => objs[k].from = HEADER_SIZE(tool))
        /\ \A j \in 1..(k - 1) :
              /\ objs[j].marker < objs[k].from
              /\ objs[j].marker < objs[k].marker

\* C23: the extraction loop of main makes progress and ends.  A call of
\* extract_model that returns a model returns a next search offset greater
\* than the offset of the marker it found, so that main's search offset
\* grows with every turn of the loop and no marker is extracted twice; the
\* parts are numbered 1, 2, 3, ..; the loop ends at the first search that
\* finds no marker; total_extracted is the number of OBJ files written; and
\* every step that stays inside a loop of extract_model or of the strip
\* reader advances that loop's counter.
C23_ExtractionLoopProgress ==
    /\ [](tool # "none" /\ search_offset # NoInt =>
            /\ PartsInOrder
            /\ total_extracted = Len(objs)
            /\ part_number = Len(objs) + 1
            /\ (pc = "faces_done" => offset > marker_offset)
            /\ (pc = "model_done" =>
                   /\ marker_offset = 0 - 1
                   /\ Find(file_data, BUFFER_MARKER(tool), search_offset) = 0 - 1))
    /\ [][tool # "none" /\ search_offset # NoInt =>
            /\ pc' = "model_call" =>
                  /\ marker_offset >= search_offset
                  /\ marker_offset + Len(BUFFER_MARKER(tool)) <= Len(file_data)
                  /\ search_offset' > marker_offset
                  /\ Len(objs') = Len(objs) + 1
            /\ pc' = pc =>
                  \/ vertices' = vertices + 1 /\ vertices' <= vertex_count
                  \/ bytes_read' = bytes_read + 2 /\ bytes_read' <= face_count * 2
                  \/ Len(faces') = Len(faces) + 1 /\ Len(faces') <= face_count]_vars

\* main of bmodel.py is through with a file of two parts: the second
\* search started behind the face words of the first part
C23_Witness ==
    /\ pc = "model_done"
    /\ tool = "bmodel"
    /\ Len(objs) = 2
    /\ total_extracted = 2
    /\ objs[1].marker = 32
    /\ objs[2].from > 32 + 60
    /\ objs[2].marker >= objs[2].from
    /\ objs[1].nfaces > 0

(***************************************************************************)
(* wolfesntein_resources.py: extract_resources.                           *)
(*                                                                         *)
(* An entry of the index file is the record of what extract_resources     *)
(* reads for it: size and zsize, what the zsize bytes at its offset in the *)
(* resources file are (kind: a raw DEFLATE stream, a zlib stream, a zlib   *)
(* stream cut short, or no stream at all), the number of bytes the stream  *)
(* inflates to (len), whether its output file can be written (wfail), and  *)
(* where the index file ends (cut: "sizes" inside the entry's size fields, *)
(* "filenumber" behind the entry, "none" for an entry that is whole).      *)
(***************************************************************************)

\* the result of one decompression method on the entry's bytes: the number
\* of bytes inflated, or NoInt for zlib.error.  "raw" is
\* zlib.decompressobj(-15) and decompressobj(-zlib.MAX_WBITS), "zlib" is
\* zlib.decompress, "zlibobj" is zlib.decompressobj(15)
Inflate(e, method) ==
    CASE method = "raw"     -> IF e.kind = "raw" THEN e.len ELSE NoInt
      [] method = "zlib"    -> IF e.kind = "zlib" THEN e.len ELSE NoInt
      [] method = "zlibobj" -> IF e.kind \in { "zlib", "cut_zlib" } THEN e.len ELSE NoInt

\* the test of methods 2 and 3 on the inflated length
Accepts(n, size) ==
    n # NoInt /\ (n = size \/ (IF n > size THEN n - size ELSE size - n) < 100)

\* the body of the inner try up to its counter increment: the counter it
\* increments, or "raise" when an exception leaves it before any increment
\* (the output file cannot be written)
TryBody(e) ==
    IF e.size = e.zsize
    THEN IF e.wfail THEN "raise" ELSE "uncompressed"
    ELSE IF Inflate(e, "raw") # NoInt
         THEN IF e.wfail THEN "raise"
              ELSE IF Inflate(e, "raw") = e.size THEN "compressed" ELSE "failed"
         ELSE IF /\ ~ e.wfail
                 /\ \/ Accepts(Inflate(e, "zlib"), e.size)
                    \/ Accepts(Inflate(e, "zlibobj"), e.size)
                    \/ Accepts(Inflate(e, "raw"), e.size)
              THEN "compressed"
              ELSE IF e.wfail THEN "raise" ELSE "failed"

\* the counters after counter c was incremented
Increment(c) ==
    /\ uncompressed_count' = uncompressed_count + (IF c = "uncompressed" THEN 1 ELSE 0)
    /\ compressed_count' = compressed_count + (IF c = "compressed" THEN 1 ELSE 0)
    /\ failed_count' = failed_count + (IF c = "failed" THEN 1 ELSE 0)
    /\ counted' = Append(counted, [entry |-> entry_i, event |-> c])

resFrame == << imageVars, modelVars, nfiles, entries >>

\* the index file is opened and its header read: without a count at 0x24
\* extract_resources returns, else the counters start at 0
ResHeader ==
    /\ pc = "res_open"
    /\ IF nfiles = NoInt
       THEN /\ pc' = "res_return"
            /\ UNCHANGED << entry_i, uncompressed_count, compressed_count,
                            failed_count >>
       ELSE /\ uncompressed_count' = 0
            /\ compressed_count' = 0
            /\ failed_count' = 0
            /\ entry_i' = 0
            /\ pc' = "res_loop"
    /\ UNCHANGED << resFrame, counted >>

\* the for loop takes entry i and reads its fields from the index file: a
\* short read of the name fields or of offset breaks the loop, a short read
\* of the sizes raises struct.error, which ends the extraction
ResRead ==
    /\ pc = "res_loop"
    /\ entry_i < nfiles
    /\ IF entry_i >= Len(entries)
       THEN /\ pc' = "res_summary"
            /\ UNCHANGED counted
       ELSE IF entries[entry_i + 1].cut = "sizes"
            THEN /\ pc' = "res_aborted"
                 /\ UNCHANGED counted
            ELSE /\ pc' = "res_try"
                 /\ counted' = Append(counted, [entry |-> entry_i, event |-> "try"])
    /\ UNCHANGED << resFrame, entry_i, uncompressed_count, compressed_count,
                    failed_count >>

\* the inner try: the data is read, decompressed and written and one
\* counter incremented, unless the write raises
ResExtract ==
    /\ pc = "res_try"
    /\ LET c == TryBody(entries[entry_i + 1])
       IN IF c = "raise"
          THEN /\ pc' = "res_except"
               /\ UNCHANGED << uncompressed_count, compressed_count,
                               failed_count, counted >>
          ELSE /\ Increment(c)
               /\ pc' = "res_print"
    /\ UNCHANGED << resFrame, entry_i >>

\* the progress line is printed, still inside the inner try: print raises
\* when standard output cannot be written (OSError, BrokenPipeError)
ResPrint ==
    /\ pc = "res_print"
    /\ \E raised \in BOOLEAN :
          IF raised
          THEN /\ pc' = "res_except"
               /\ counted' = Append(counted, [entry |-> entry_i, event |-> "raised"])
          ELSE /\ pc' = "res_next"
               /\ UNCHANGED counted
    /\ UNCHANGED << resFrame, entry_i, uncompressed_count, compressed_count,
                    failed_count >>

\* the handler of the inner try prints its line and increments
\* failed_count; when its print raises too the extraction ends
ResExcept ==
    /\ pc = "res_except"
    /\ \E raised \in BOOLEAN :
          IF raised
          THEN /\ pc' = "res_aborted"
               /\ UNCHANGED << uncompressed_count, compressed_count,
                               failed_count, counted >>
          ELSE /\ Increment("failed")
               /\ pc' = "res_next"
    /\ UNCHANGED << resFrame, entry_i >>

\* the end of the loop body: behind every entry but the last declared one
\* a file number is read, and a short read breaks the loop
ResNext ==
    /\ pc = "res_next"
    /\ IF entry_i # nfiles - 1 /\ entries[entry_i + 1].cut = "filenumber"
       THEN /\ pc' = "res_summary"
            /\ UNCHANGED entry_i
       ELSE /\ entry_i' = entry_i + 1
            /\ pc' = "res_loop"
    /\ UNCHANGED << resFrame, uncompressed_count, compressed_count,
                    failed_count, counted >>

\* range(files) is used up
ResLoopEnd ==
    /\ pc = "res_loop"
    /\ entry_i >= nfiles
    /\ pc' = "res_summary"
    /\ UNCHANGED << resFrame, resVars >>

\* the summary is printed with the three counters
ResSummary ==
    /\ pc = "res_summary"
    /\ pc' = "res_done"
    /\ UNCHANGED << resFrame, resVars >>

\* the entries the index files are made of: an entry stored as it is, and
\* compressed entries of every kind, inflating to the declared size, to a
\* size within the tolerance of methods 2 and 3 and to one outside it
IndexEntries ==
    { [size |-> 300, zsize |-> 300, kind |-> "junk", len |-> 0,
       wfail |-> w, cut |-> "none"] : w \in BOOLEAN }
    \cup
    { [size |-> 300, zsize |-> 120, kind |-> k, len |-> n,
       wfail |-> FALSE, cut |-> "none"] :
          k \in { "raw", "zlib", "cut_zlib" }, n \in { 300, 350, 500 } }
    \cup
    { [size |-> 300, zsize |-> 120, kind |-> k, len |-> 0,
       wfail |-> w, cut |-> "none"] : k \in { "junk" }, w \in BOOLEAN }

\* the sequences of n whole entries
RECURSIVE WholeEntries(_)
WholeEntries(n) ==
    IF n = 0 THEN { << >> }
    ELSE UNION { { Append(s, e) : e \in IndexEntries } : s \in WholeEntries(n - 1) }

\* the index files of n entries: only the last entry can be cut
IndexFiles(n) ==
    WholeEntries(n) \cup
    { [s EXCEPT ![n].cut = c] :
         s \in IF n = 0 THEN { } ELSE WholeEntries(n), c \in { "sizes", "filenumber" } }

InitResources ==
    \E n \in 0..MaxEntries :
        \E es \in IndexFiles(n) :
            \E declared \in { NoInt } \cup (0..(n + 1)) :
                /\ NoImage
                /\ NoMain
                /\ NoModel
                /\ pc = "res_open"
                /\ nfiles = declared
                /\ entries = es
                /\ entry_i = NoInt
                /\ uncompressed_count = NoInt
                /\ compressed_count = NoInt
                /\ failed_count = NoInt
                /\ counted = << >>

NextResources ==
    \/ ResHeader
    \/ ResRead
    \/ ResExtract
    \/ ResPrint
    \/ ResExcept
    \/ ResNext
    \/ ResLoopEnd
    \/ ResSummary

SpecResources == InitResources /\ [][NextResources]_vars

\* the entries whose extraction was attempted: the inner try was entered
Attempted ==
    { counted[k].entry : k \in { j \in DOMAIN counted : counted[j].event = "try" } }

\* the counter increments made for entry i
Increments(i) ==
    { k \in DOMAIN counted :
        /\ counted[k].entry = i
        /\ counted[k].event \in { "uncompressed", "compressed", "failed" } }

\* the entries whose progress line could not be printed
PrintRaised ==
    { counted[k].entry : k \in { j \in DOMAIN counted : counted[j].event = "raised" } }

\* entry_i's pass through the loop body is over, or the loop is
BetweenEntries == pc \in { "res_loop", "res_next", "res_summary", "res_done" }

\* the counters are the numbers of increments recorded
CountersAreIncrements ==
    /\ uncompressed_count =
          Cardinality({ k \in DOMAIN counted : counted[k].event = "uncompressed" })
    /\ compressed_count =
          Cardinality({ k \in DOMAIN counted : counted[k].event = "compressed" })
    /\ failed_count =
          Cardinality({ k \in DOMAIN counted : counted[k].event = "failed" })

\* no entry with size = zsize was counted as compressed
StoredNeverCompressed ==
    \A k \in DOMAIN counted :
        counted[k].event = "compressed" =>
            entries[counted[k].entry + 1].size # entries[counted[k].entry + 1].zsize

\* C24: in extract_resources, after any sequence of index entries, each
\* entry whose extraction was attempted has incremented exactly one of
\* uncompressed_count, compressed_count and failed_count, so that their sum
\* is the number of entries attempted and is at most the declared file
\* count; an entry with size = zsize is never counted as compressed.
C24_OneCounterPerEntry ==
    BetweenEntries =>
        /\ CountersAreIncrements
        /\ \A i \in Attempted : Cardinality(Increments(i)) = 1
        /\ uncompressed_count + compressed_count + failed_count
              = Cardinality(Attempted)
        /\ uncompressed_count + compressed_count + failed_count <= nfiles
        /\ StoredNeverCompressed

\* what holds of the counters: an entry is counted once, except that an
\* entry whose progress line raised is counted twice, by its own branch and
\* then as failed by the handler; no entry with size = zsize is counted as
\* compressed
C24_TwiceWhenPrintRaises ==
    BetweenEntries =>
        /\ CountersAreIncrements
        /\ \A i \in Attempted :
              /\ Cardinality(Increments(i)) = IF i \in PrintRaised THEN 2 ELSE 1
              /\ i \in PrintRaised =>
                    \E k \in Increments(i) :
                        /\ counted[k].event = "failed"
                        /\ \A j \in Increments(i) : j <= k
        /\ uncompressed_count + compressed_count + failed_count
              = Cardinality(Attempted) + Cardinality(PrintRaised)
        /\ Cardinality(Attempted) <= nfiles
        /\ StoredNeverCompressed

\* the summary of an index of two stored entries reports three: the first
\* entry was counted as uncompressed and, its progress line failing, as
\* failed too
C24_DoubleCount ==
    /\ pc = "res_done"
    /\ nfiles = 2
    /\ Cardinality(Attempted) = 2
    /\ uncompressed_count = 2
    /\ failed_count = 1
    /\ Cardinality(Increments(0)) = 2

====
